---------------------------- MODULE Spec2Model ----------------------------
(***************************************************************************)
(* DeskCoach: posture-time accounting (utils/time_stats.py,                *)
(* models/store.py) and the reminder engine (services/reminder.py,         *)
(* services/session_watcher.py, main.py).                                  *)
(*                                                                         *)
(* Timestamps are integer seconds.  A measurement is <<ts, height_mm>>, a  *)
(* session event is <<ts, "LOCK" | "UNLOCK">>, a lock interval is the      *)
(* half-open range <<start, end>>.  None stands for Python's None.         *)
(***************************************************************************)
EXTENDS Integers, Sequences, FiniteSets, TLC

VARIABLES
    now,                  \* wall clock: time.time() / datetime.now(), in seconds
    measurements,         \* table measurements, in insertion order
    session_events,       \* table session_events, in insertion order
    daily_aggregates,     \* table daily_aggregates: date -> None | row
    unlocked,             \* SessionWatcher._unlocked
    paused,               \* main.py state["paused"]
    snoozed_until,        \* ReminderEngine._snoozed_until
    next_ready_at,        \* ReminderEngine._next_ready_at
    next_ready_seated,    \* ReminderEngine._next_ready_seated
    next_ready_standing,  \* ReminderEngine._next_ready_standing
    lock_started_at,      \* ReminderEngine._lock_started_at
    calls,                \* titles notifier.notify received during the last handler
    fed,                  \* the height on_new_measurement got in the last handler, if any
    stand_up_at,          \* history: times of the "Stand up"s of the seated episode
    last_posture,         \* history: the last sample the engine evaluated: was it
                          \* standing, and did it clear a cadence timer that was set
    args,                 \* arguments of the pure function under study
    ret                   \* its result

vars == <<now, measurements, session_events, daily_aggregates, unlocked, paused,
          snoozed_until, next_ready_at, next_ready_seated, next_ready_standing,
          lock_started_at, calls, fed, stand_up_at, last_posture, args, ret>>

dbVars == <<measurements, session_events, daily_aggregates>>
engineVars == <<snoozed_until, next_ready_at, next_ready_seated,
                next_ready_standing, lock_started_at>>
appVars == <<unlocked, paused, calls, fed, stand_up_at, last_posture>>
fnVars == <<args, ret>>

\* Optional values: None, or Some(x) holding x as opt[1].
None == <<>>
Some(x) == <<x>>

Max(a, b) == IF a >= b THEN a ELSE b
Min(a, b) == IF a <= b THEN a ELSE b

(***************************************************************************)
(* utils/time_stats.py                                                     *)
(***************************************************************************)

\* The overlap without the clamp at zero: negative for disjoint ranges.
overlap_len_unclamped(a0, a1, b0, b1) == Min(a1, b1) - Max(a0, b0)

_overlap_len(a0, a1, b0, b1) == Max(0, Min(a1, b1) - Max(a0, b0))

\* cut after the first n lock intervals, as the loop accumulates it
RECURSIVE cut_after(_, _, _, _)
cut_after(seg_start, seg_end, lock_intervals, n) ==
    IF n = 0 THEN 0
    ELSE cut_after(seg_start, seg_end, lock_intervals, n - 1)
         + _overlap_len(seg_start, seg_end,
                        lock_intervals[n][1], lock_intervals[n][2])

\* The subtraction without the short-circuit and without the final clamp.
subtract_locked_unclamped(seg_start, seg_end, lock_intervals) ==
    LET length == Max(0, seg_end - seg_start)
    IN  IF length = 0 \/ lock_intervals = <<>> THEN length
        ELSE length - cut_after(seg_start, seg_end, lock_intervals,
                                Len(lock_intervals))

_subtract_locked(seg_start, seg_end, lock_intervals) ==
    LET length == Max(0, seg_end - seg_start)
    IN  IF length = 0 \/ lock_intervals = <<>> THEN length
        ELSE IF \E n \in 1..Len(lock_intervals) :
                    cut_after(seg_start, seg_end, lock_intervals, n) >= length
             THEN 0
             ELSE Max(0, length - cut_after(seg_start, seg_end, lock_intervals,
                                            Len(lock_intervals)))


\* The step to the next sample is cut at end_ts.
held_seconds_clipped(ms, lock_intervals, end_ts, i) ==
    IF i < Len(ms)
    THEN IF ms[i + 1][1] <= ms[i][1] THEN 0
         ELSE _subtract_locked(ms[i][1], Min(ms[i + 1][1], end_ts), lock_intervals)
    ELSE IF end_ts > ms[i][1]
         THEN _subtract_locked(ms[i][1], end_ts, lock_intervals)
         ELSE 0

\* Effective seconds the i-th sample is held: up to the next sample, or, for
\* the last sample, up to end_ts.  A non-increasing step counts nothing.
held_seconds(ms, lock_intervals, end_ts, i) ==
    IF i < Len(ms)
    THEN IF ms[i + 1][1] <= ms[i][1] THEN 0
         ELSE _subtract_locked(ms[i][1], ms[i + 1][1], lock_intervals)
    ELSE IF end_ts > ms[i][1]
         THEN _subtract_locked(ms[i][1], end_ts, lock_intervals)
         ELSE 0

\* Seconds attributed to one posture by the samples 1..i.
RECURSIVE attributed(_, _, _, _, _, _)
attributed(ms, lock_intervals, thr, end_ts, standing, i) ==
    IF i = 0 THEN 0
    ELSE attributed(ms, lock_intervals, thr, end_ts, standing, i - 1)
         + (IF (ms[i][2] >= thr) = standing
            THEN Max(0, held_seconds(ms, lock_intervals, end_ts, i))
            ELSE 0)

\* The tail [last_ts, end_ts) is left out.
accumulate_without_tail(ms, lock_intervals, stand_threshold, end_ts) ==
    IF end_ts <= 0 \/ ms = <<>> THEN <<0, 0>>
    ELSE <<attributed(ms, lock_intervals, stand_threshold, end_ts, FALSE, Len(ms) - 1),
           attributed(ms, lock_intervals, stand_threshold, end_ts, TRUE, Len(ms) - 1)>>

\* Returns <<seated_seconds, standing_seconds>>.
accumulate_sit_stand_seconds(ms, lock_intervals, stand_threshold, end_ts) ==
    IF end_ts <= 0 \/ ms = <<>> THEN <<0, 0>>
    ELSE <<attributed(ms, lock_intervals, stand_threshold, end_ts, FALSE, Len(ms)),
           attributed(ms, lock_intervals, stand_threshold, end_ts, TRUE, Len(ms))>>

(***************************************************************************)
(* Values the variables hold in a specification that does not use them.    *)
(***************************************************************************)
IdleClock == now = 0
IdleDb ==
    /\ measurements = <<>>
    /\ session_events = <<>>
    /\ daily_aggregates = <<>>
IdleEngine ==
    /\ snoozed_until = None
    /\ next_ready_at = None
    /\ next_ready_seated = None
    /\ next_ready_standing = None
    /\ lock_started_at = None
IdleApp ==
    /\ unlocked = TRUE
    /\ paused = FALSE
    /\ calls = <<>>
    /\ fed = None
    /\ stand_up_at = <<>>
    /\ last_posture = None
IdleFn ==
    /\ args = None
    /\ ret = None

(***************************************************************************)
(* SpecSubtract: _subtract_locked on a segment whose lock list grows.      *)
(***************************************************************************)
MaxT == 3
MaxLocks == 2

SubPts == 0..MaxT
SubIntervals == {iv \in SubPts \X SubPts : iv[1] <= iv[2]}

SubResult(a) == _subtract_locked(a.seg_start, a.seg_end, a.lock_intervals)

InitSubtract ==
    /\ IdleClock /\ IdleDb /\ IdleEngine /\ IdleApp
    /\ args \in [seg_start : SubPts, seg_end : SubPts, lock_intervals : {<<>>}]
    /\ ret = SubResult(args)

\* One more lock interval is passed.
SubAddLock ==
    /\ Len(args.lock_intervals) < MaxLocks
    /\ \E iv \in SubIntervals :
          args' = [args EXCEPT !.lock_intervals = Append(@, iv)]
    /\ ret' = SubResult(args')
    /\ UNCHANGED <<now, dbVars, engineVars, appVars>>

\* One of the lock intervals is passed enlarged.
SubEnlargeLock ==
    /\ \E i \in 1..Len(args.lock_intervals) : \E iv \in SubIntervals :
          /\ iv[1] <= args.lock_intervals[i][1]
          /\ iv[2] >= args.lock_intervals[i][2]
          /\ iv # args.lock_intervals[i]
          /\ args' = [args EXCEPT !.lock_intervals[i] = iv]
    /\ ret' = SubResult(args')
    /\ UNCHANGED <<now, dbVars, engineVars, appVars>>

NextSubtract == SubAddLock \/ SubEnlargeLock

SpecSubtract == InitSubtract /\ [][NextSubtract]_vars

\* C7: for every segment with e >= s and every list of lock intervals,
\* subtractLocked(s, e, locks) lies in [0, e - s], and with no locks it is e - s.
C7_SubtractRange ==
    args.seg_end >= args.seg_start =>
        /\ ret >= 0
        /\ ret <= args.seg_end - args.seg_start
        /\ (args.lock_intervals = <<>> => ret = args.seg_end - args.seg_start)

\* Two lock intervals that together overlap the segment by more than its
\* length: the result is clamped at zero.
C7_Witness ==
    /\ args.seg_end > args.seg_start
    /\ Len(args.lock_intervals) = 2
    /\ cut_after(args.seg_start, args.seg_end, args.lock_intervals, 2)
          > args.seg_end - args.seg_start
    /\ ret = 0

\* C8: subtractLocked never increases when a lock interval is added to the
\* list or one of its intervals is enlarged.
C8_SubtractMonotone == [][ret' <= ret]_vars

\* A lock list that removed part, not all, of the segment.
C8_Witness ==
    /\ Len(args.lock_intervals) >= 1
    /\ ret > 0
    /\ ret < args.seg_end - args.seg_start

(***************************************************************************)
(* SpecAccum: accumulate_sit_stand_seconds on a growing, ascending sample  *)
(* sequence and a growing list of disjoint lock intervals.                 *)
(***************************************************************************)
MaxSamples == 2
MaxAccLocks == 1

stand_threshold_mm == 900

AccPts == {0, 100, 400, 600, 900}
AccHeights == {800, 900, 950}
AccIntervals == {iv \in AccPts \X AccPts : iv[1] < iv[2]}

AccResult(a) ==
    accumulate_sit_stand_seconds(a.measurements, a.lock_intervals,
                                 stand_threshold_mm, a.end_ts)

InitAccum ==
    /\ IdleClock /\ IdleDb /\ IdleEngine /\ IdleApp
    /\ args \in [measurements : {<<>>}, lock_intervals : {<<>>},
                 end_ts : AccPts \ {0}]
    /\ ret = AccResult(args)

\* A later (or simultaneous) sample joins the sequence.
AccAddSample ==
    /\ Len(args.measurements) < MaxSamples
    /\ \E t \in AccPts : \E h \in AccHeights :
          /\ args.measurements # <<>> =>
                 t >= args.measurements[Len(args.measurements)][1]
          /\ args' = [args EXCEPT !.measurements = Append(@, <<t, h>>)]
    /\ ret' = AccResult(args')
    /\ UNCHANGED <<now, dbVars, engineVars, appVars>>

\* A later lock interval joins the list.
AccAddLock ==
    /\ Len(args.lock_intervals) < MaxAccLocks
    /\ \E iv \in AccIntervals :
          /\ args.lock_intervals # <<>> =>
                 iv[1] >= args.lock_intervals[Len(args.lock_intervals)][2]
          /\ args' = [args EXCEPT !.lock_intervals = Append(@, iv)]
    /\ ret' = AccResult(args')
    /\ UNCHANGED <<now, dbVars, engineVars, appVars>>

NextAccum == AccAddSample \/ AccAddLock

SpecAccum == InitAccum /\ [][NextAccum]_vars

\* The sample held at time t: the last one of the sequence taken at or before t.
HeldAt(ms, t) ==
    LET I == {i \in 1..Len(ms) : ms[i][1] <= t}
    IN  IF I = {} THEN 0 ELSE CHOOSE i \in I : \A j \in I : j <= i

InLock(lock_intervals, t) ==
    \E k \in 1..Len(lock_intervals) :
        lock_intervals[k][1] <= t /\ t < lock_intervals[k][2]

\* Where the attribution stops: end_ts, or the last sample when that is later
\* (the intervals between samples are not cut at end_ts).
Horizon(a) ==
    IF a.measurements = <<>> THEN a.end_ts
    ELSE Max(a.end_ts, a.measurements[Len(a.measurements)][1])

\* Seconds before the horizon that are unlocked and held by a sample of the
\* posture, counted in the 100-second cells every time of AccPts is a multiple of.
StepSeconds(a, standing) ==
    100 * Cardinality({c \in 0..8 :
        /\ 100 * c < Horizon(a)
        /\ HeldAt(a.measurements, 100 * c) # 0
        /\ (a.measurements[HeldAt(a.measurements, 100 * c)][2]
                >= stand_threshold_mm) = standing
        /\ ~InLock(a.lock_intervals, 100 * c)})

Scenario == <<<<0, 800>>, <<600, 950>>>>

\* C6: each interval between consecutive samples, net of locked time, goes to
\* the posture of the earlier sample (standing iff height >= threshold) and the
\* tail [lastSampleTs, windowEnd) to the last sample's posture; for samples
\* [(t0,800),(t0+600,950)], threshold 900 and windowEnd t0+900 the result is
\* (600, 300) with no locks and (300, 300) with the lock [t0+100, t0+400).
C6_StepAttribution ==
    /\ ret = <<StepSeconds(args, FALSE), StepSeconds(args, TRUE)>>
    /\ (args.measurements = Scenario /\ args.end_ts = 900) =>
          /\ args.lock_intervals = <<>> => ret = <<600, 300>>
          /\ args.lock_intervals = <<<<100, 400>>>> => ret = <<300, 300>>

\* The scenario with the lock interval [100, 400).
C6_Witness ==
    /\ args.measurements = Scenario
    /\ args.end_ts = 900
    /\ args.lock_intervals = <<<<100, 400>>>>
    /\ ret = <<300, 300>>

(***************************************************************************)
(* models/store.py.  The tables are passed explicitly; a local date is the *)
(* number of the day since the epoch, which is what the "%Y-%m-%d" string  *)
(* names (fixed UTC offset, no daylight saving).                           *)
(***************************************************************************)
DaySeconds == 86400
FreshnessSeconds == 120

\* ORDER BY ts ASC: a stable insertion sort of the rows on their timestamp.
RECURSIVE InsertByTs(_, _)
InsertByTs(sorted, row) ==
    IF sorted = <<>> THEN <<row>>
    ELSE IF sorted[Len(sorted)][1] <= row[1] THEN Append(sorted, row)
    ELSE Append(InsertByTs(SubSeq(sorted, 1, Len(sorted) - 1), row),
                sorted[Len(sorted)])

RECURSIVE OrderByTs(_)
OrderByTs(rows) ==
    IF rows = <<>> THEN <<>>
    ELSE InsertByTs(OrderByTs(SubSeq(rows, 1, Len(rows) - 1)), rows[Len(rows)])

\* WHERE lo <= ts AND ts <= hi, in table order
RECURSIVE SelectTs(_, _, _)
SelectTs(rows, lo, hi) ==
    IF rows = <<>> THEN <<>>
    ELSE LET rest == SelectTs(SubSeq(rows, 1, Len(rows) - 1), lo, hi)
             r == rows[Len(rows)]
         IN  IF lo <= r[1] /\ r[1] <= hi THEN Append(rest, r) ELSE rest

\* WHERE event = kind, in table order
RECURSIVE SelectEvent(_, _)
SelectEvent(rows, kind) ==
    IF rows = <<>> THEN <<>>
    ELSE LET rest == SelectEvent(SubSeq(rows, 1, Len(rows) - 1), kind)
             r == rows[Len(rows)]
         IN  IF r[2] = kind THEN Append(rest, r) ELSE rest

\* WHERE ts <= hi (Unix timestamps are not negative)
SelectUpTo(rows, hi) == SelectTs(rows, 0, hi)

\* SELECT MIN(ts) of a table that is not empty
MinTs(rows) == CHOOSE t \in {rows[i][1] : i \in 1..Len(rows)} :
                   \A i \in 1..Len(rows) : t <= rows[i][1]

_seconds_since_midnight(ts) == ts % DaySeconds

\* <<start_ts, date>>
_day_bounds_local(ts) == <<(ts \div DaySeconds) * DaySeconds, ts \div DaySeconds>>

\* <<start_ts, end_ts>>
_day_bounds_for_date_str(date) == <<date * DaySeconds, date * DaySeconds + DaySeconds>>

\* The scan of the events in the window: st = [locked, lock_start, intervals].
RECURSIVE ScanEvents(_, _, _, _, _)
ScanEvents(evs, n, start_ts, end_ts, st0) ==
    IF n = 0 THEN st0
    ELSE LET st == ScanEvents(evs, n - 1, start_ts, end_ts, st0)
             ts == evs[n][1]
             ev == evs[n][2]
         IN  IF ev = "LOCK"
             THEN IF ~st.locked
                  THEN [st EXCEPT !.locked = TRUE,
                                  !.lock_start = Some(Max(ts, start_ts))]
                  ELSE st
             ELSE IF st.locked /\ st.lock_start # None
                  THEN [locked |-> FALSE, lock_start |-> None,
                        intervals |->
                            IF Min(ts, end_ts) > st.lock_start[1]
                            THEN Append(st.intervals,
                                        <<st.lock_start[1], Min(ts, end_ts)>>)
                            ELSE st.intervals]
                  ELSE st

\* A LOCK that follows a LOCK closes the running interval and opens another.
RECURSIVE ScanEventsRestarting(_, _, _, _, _)
ScanEventsRestarting(evs, n, start_ts, end_ts, st0) ==
    IF n = 0 THEN st0
    ELSE LET st == ScanEventsRestarting(evs, n - 1, start_ts, end_ts, st0)
             ts == evs[n][1]
             ev == evs[n][2]
             closed == IF st.locked /\ st.lock_start # None
                          /\ Min(ts, end_ts) > st.lock_start[1]
                       THEN Append(st.intervals, <<st.lock_start[1], Min(ts, end_ts)>>)
                       ELSE st.intervals
         IN  IF ev = "LOCK"
             THEN [locked |-> TRUE, lock_start |-> Some(Max(ts, start_ts)),
                   intervals |-> closed]
             ELSE [locked |-> FALSE, lock_start |-> None, intervals |-> closed]

\* The scan restarts its interval at every LOCK.
locked_intervals_restarting(events, start_ts, end_ts) ==
    IF end_ts <= start_ts THEN <<>>
    ELSE LET before == OrderByTs(SelectUpTo(events, start_ts))
             start_locked == before # <<>> /\ before[Len(before)][2] = "LOCK"
             inwin == OrderByTs(SelectTs(events, start_ts + 1, end_ts))
             st == ScanEventsRestarting(inwin, Len(inwin), start_ts, end_ts,
                              [locked |-> start_locked,
                               lock_start |-> IF start_locked THEN Some(start_ts)
                                              ELSE None,
                               intervals |-> <<>>])
         IN  IF st.locked /\ st.lock_start # None /\ end_ts > st.lock_start[1]
             THEN Append(st.intervals, <<st.lock_start[1], end_ts>>)
             ELSE st.intervals

\* A lock that is still running at end_ts is not closed.
locked_intervals_closed_only(events, start_ts, end_ts) ==
    IF end_ts <= start_ts THEN <<>>
    ELSE LET before == OrderByTs(SelectUpTo(events, start_ts))
             start_locked == before # <<>> /\ before[Len(before)][2] = "LOCK"
             inwin == OrderByTs(SelectTs(events, start_ts + 1, end_ts))
             st == ScanEvents(inwin, Len(inwin), start_ts, end_ts,
                              [locked |-> start_locked,
                               lock_start |-> IF start_locked THEN Some(start_ts)
                                              ELSE None,
                               intervals |-> <<>>])
         IN  st.intervals

\* The lock running at start_ts is taken from its own LOCK on.
locked_intervals_from_lock(events, start_ts, end_ts) ==
    IF end_ts <= start_ts THEN <<>>
    ELSE LET before == OrderByTs(SelectUpTo(events, start_ts))
             start_locked == before # <<>> /\ before[Len(before)][2] = "LOCK"
             inwin == OrderByTs(SelectTs(events, start_ts + 1, end_ts))
             st == ScanEvents(inwin, Len(inwin), start_ts, end_ts,
                              [locked |-> start_locked,
                               lock_start |-> IF start_locked
                                              THEN Some(before[Len(before)][1])
                                              ELSE None,
                               intervals |-> <<>>])
         IN  IF st.locked /\ st.lock_start # None /\ end_ts > st.lock_start[1]
             THEN Append(st.intervals, <<st.lock_start[1], end_ts>>)
             ELSE st.intervals

\* An event at exactly start_ts is no prior state.
locked_intervals_boundary_lost(events, start_ts, end_ts) ==
    IF end_ts <= start_ts THEN <<>>
    ELSE LET before == OrderByTs(SelectUpTo(events, start_ts - 1))
             start_locked == before # <<>> /\ before[Len(before)][2] = "LOCK"
             inwin == OrderByTs(SelectTs(events, start_ts + 1, end_ts))
             st == ScanEvents(inwin, Len(inwin), start_ts, end_ts,
                              [locked |-> start_locked,
                               lock_start |-> IF start_locked THEN Some(start_ts)
                                              ELSE None,
                               intervals |-> <<>>])
         IN  IF st.locked /\ st.lock_start # None /\ end_ts > st.lock_start[1]
             THEN Append(st.intervals, <<st.lock_start[1], end_ts>>)
             ELSE st.intervals

_locked_intervals(events, start_ts, end_ts) ==
    IF end_ts <= start_ts THEN <<>>
    ELSE LET before == OrderByTs(SelectUpTo(events, start_ts))
             start_locked == before # <<>> /\ before[Len(before)][2] = "LOCK"
             inwin == OrderByTs(SelectTs(events, start_ts + 1, end_ts))
             st == ScanEvents(inwin, Len(inwin), start_ts, end_ts,
                              [locked |-> start_locked,
                               lock_start |-> IF start_locked THEN Some(start_ts)
                                              ELSE None,
                               intervals |-> <<>>])
         IN  IF st.locked /\ st.lock_start # None /\ end_ts > st.lock_start[1]
             THEN Append(st.intervals, <<st.lock_start[1], end_ts>>)
             ELSE st.intervals

\* The samples taken before the window are selected too.
compute_day_aggregates_from_first(meas, events, start_ts, end_ts, thr) ==
    IF end_ts <= start_ts THEN <<0, 0>>
    ELSE LET rows == OrderByTs(SelectUpTo(meas, end_ts))
         IN  IF rows = <<>> THEN <<0, 0>>
             ELSE accumulate_sit_stand_seconds(
                      rows, _locked_intervals(events, start_ts, end_ts), thr, end_ts)

\* The first sample of the window is taken to hold from start_ts on.
compute_day_aggregates_padded(meas, events, start_ts, end_ts, thr) ==
    IF end_ts <= start_ts THEN <<0, 0>>
    ELSE LET rows == OrderByTs(SelectTs(meas, start_ts, end_ts))
         IN  IF rows = <<>> THEN <<0, 0>>
             ELSE accumulate_sit_stand_seconds(
                      <<<<start_ts, rows[1][2]>>>> \o rows,
                      _locked_intervals(events, start_ts, end_ts), thr, end_ts)

compute_day_aggregates(meas, events, start_ts, end_ts, thr) ==
    IF end_ts <= start_ts THEN <<0, 0>>
    ELSE LET rows == OrderByTs(SelectTs(meas, start_ts, end_ts))
         IN  IF rows = <<>> THEN <<0, 0>>
             ELSE accumulate_sit_stand_seconds(
                      rows, _locked_intervals(events, start_ts, end_ts), thr, end_ts)

(***************************************************************************)
(* SpecAgg: compute_day_aggregates over windows of a small database.       *)
(***************************************************************************)
MaxAggT == 2
MaxAggMeas == 2
MaxAggEvents == 1

AggPts == 0..MaxAggT
AggHeights == {800, 950}
AggWindows == {w \in AggPts \X AggPts : w[1] <= w[2]}

LastTs(rows) == IF rows = <<>> THEN 0 ELSE rows[Len(rows)][1]

InitAgg ==
    /\ IdleClock /\ IdleEngine /\ IdleApp
    /\ measurements = <<>>
    /\ session_events = <<>>
    /\ daily_aggregates = <<>>
    /\ args = [start_ts |-> 0, end_ts |-> 0]
    /\ ret = None

\* store.save_measurement, at the time of the clock
AggSaveMeasurement ==
    /\ Len(measurements) < MaxAggMeas
    /\ \E t \in AggPts : \E h \in AggHeights :
          /\ t >= LastTs(measurements)
          /\ measurements' = Append(measurements, <<t, h>>)
    /\ ret' = None
    /\ UNCHANGED <<now, args, session_events, daily_aggregates, engineVars, appVars>>

\* store.save_session_event, at the time of the clock
AggSaveSessionEvent ==
    /\ Len(session_events) < MaxAggEvents
    /\ \E t \in AggPts : \E ev \in {"LOCK", "UNLOCK"} :
          /\ t >= LastTs(session_events)
          /\ session_events' = Append(session_events, <<t, ev>>)
    /\ ret' = None
    /\ UNCHANGED <<now, args, measurements, daily_aggregates, engineVars, appVars>>

AggCompute ==
    /\ \E w \in AggWindows :
          /\ args' = [start_ts |-> w[1], end_ts |-> w[2]]
          /\ ret' = compute_day_aggregates(measurements, session_events,
                                           w[1], w[2], stand_threshold_mm)
    /\ UNCHANGED <<now, dbVars, engineVars, appVars>>

NextAgg == AggSaveMeasurement \/ AggSaveSessionEvent \/ AggCompute

SpecAgg == InitAgg /\ [][NextAgg]_vars

AggNoLockedTime ==
    _locked_intervals(session_events, args.start_ts, args.end_ts) = <<>>

\* C5 as stated: seated + standing <= windowEnd - windowStart, with equality
\* when the window contains no locked time and there is at least one sample
\* at or before windowStart.
C5_AsStated ==
    ret # None =>
        /\ ret[1] + ret[2] <= args.end_ts - args.start_ts
        /\ (AggNoLockedTime
            /\ \E i \in 1..Len(measurements) : measurements[i][1] <= args.start_ts)
           => ret[1] + ret[2] = args.end_ts - args.start_ts

\* C5 amended: seated + standing <= windowEnd - windowStart, with equality
\* when the window contains no locked time and there is a sample taken exactly
\* at windowStart (samples taken before the window are not read).
C5_WindowBound ==
    ret # None =>
        /\ ret[1] + ret[2] <= args.end_ts - args.start_ts
        /\ (AggNoLockedTime
            /\ \E i \in 1..Len(measurements) : measurements[i][1] = args.start_ts)
           => ret[1] + ret[2] = args.end_ts - args.start_ts

\* A window that starts at a sample, holds a second one and has no locked time.
C5_Witness ==
    /\ ret # None
    /\ args.end_ts > args.start_ts
    /\ AggNoLockedTime
    /\ Len(measurements) = 2
    /\ measurements[1][1] = args.start_ts
    /\ measurements[2][1] > args.start_ts
    /\ measurements[2][1] < args.end_ts
    /\ ret[1] > 0 /\ ret[2] > 0
    /\ ret[1] + ret[2] = args.end_ts - args.start_ts

(***************************************************************************)
(* SpecUnordered: accumulate_sit_stand_seconds on sample sequences in any  *)
(* order, duplicates and samples after end_ts included.  The call has one  *)
(* more sample at each step.                                               *)
(***************************************************************************)
MaxAnySamples == 3

AnyPts == {0, 100, 200, 300}
AnyLocks == {<<>>, <<<<100, 200>>>>}

InitUnordered ==
    /\ IdleClock /\ IdleDb /\ IdleEngine /\ IdleApp
    /\ args \in [measurements : {<<>>}, lock_intervals : AnyLocks,
                 end_ts : AnyPts \ {0}]
    /\ ret = AccResult(args)

\* A sample of any timestamp joins the sequence.
AnyAddSample ==
    /\ Len(args.measurements) < MaxAnySamples
    /\ \E t \in AnyPts : \E h \in AggHeights :
          args' = [args EXCEPT !.measurements = Append(@, <<t, h>>)]
    /\ ret' = AccResult(args')
    /\ UNCHANGED <<now, dbVars, engineVars, appVars>>

NextUnordered == AnyAddSample

SpecUnordered == InitUnordered /\ [][NextUnordered]_vars

\* Where the i-th sample stops being held: the next sample, or end_ts for the
\* last one.
HeldUntil(a, i) ==
    IF i < Len(a.measurements) THEN a.measurements[i + 1][1] ELSE a.end_ts

\* The pairs <<i, c>> of a sample and an unlocked 100-second cell between it
\* and the place it stops being held (every time of AnyPts is a multiple of
\* 100): none when the step is not increasing.
HeldCells(a) ==
    {p \in (1..Len(a.measurements)) \X (0..3) :
        /\ a.measurements[p[1]][1] <= 100 * p[2]
        /\ 100 * p[2] < HeldUntil(a, p[1])
        /\ ~InLock(a.lock_intervals, 100 * p[2])}

Ascending(ms) == \A i \in 1..(Len(ms) - 1) : ms[i][1] <= ms[i + 1][1]

\* C30 as stated, for sequences with no sample after end_ts: whatever the
\* order of the samples, no time is counted twice, so seated + standing
\* never exceeds end_ts minus the smallest sample timestamp.
C30_AsStated ==
    (/\ args.measurements # <<>>
     /\ \A i \in 1..Len(args.measurements) : args.measurements[i][1] <= args.end_ts)
    => ret[1] + ret[2] <= args.end_ts - MinTs(args.measurements)

\* C30 amended: accumulate_sit_stand_seconds tolerates non-monotonic input:
\* every non-increasing step counts nothing, every increasing step counts its
\* unlocked length up to the next sample, and the tail counts when end_ts is
\* after the last sample; when the sequence is ascending (duplicates allowed)
\* and has no sample after end_ts, seated + standing never exceeds end_ts
\* minus the first sample timestamp.
C30_NonIncreasingStepsSkipped ==
    /\ ret[1] + ret[2] = 100 * Cardinality(HeldCells(args))
    /\ (/\ args.measurements # <<>>
        /\ Ascending(args.measurements)
        /\ args.measurements[Len(args.measurements)][1] <= args.end_ts)
       => ret[1] + ret[2] <= args.end_ts - args.measurements[1][1]

\* A duplicate and an out-of-order sample: the steps 100 -> 100 and 100 -> 0
\* count nothing, the tail from 0 counts its unlocked 200 seconds.
C30_Witness ==
    /\ Len(args.measurements) = 3
    /\ args.measurements[1][1] = 100
    /\ args.measurements[2][1] = 100
    /\ args.measurements[3][1] = 0
    /\ args.end_ts = 300
    /\ args.lock_intervals # <<>>
    /\ ret[1] + ret[2] = 200

(***************************************************************************)
(* SpecLock: _locked_intervals over windows of a session-event log that    *)
(* the watcher appends to, with repeated kinds and equal timestamps.       *)
(***************************************************************************)
MaxLockT == 3
MaxLockEvents == 3

LockPts == 0..MaxLockT
LockWindows == LockPts \X LockPts

InitLock ==
    /\ IdleClock /\ IdleDb /\ IdleEngine /\ IdleApp
    /\ args = [start_ts |-> 0, end_ts |-> 0]
    /\ ret = None

\* store.save_session_event, called by the watcher as time goes on
LockSaveSessionEvent ==
    /\ Len(session_events) < MaxLockEvents
    /\ \E t \in LockPts : \E ev \in {"LOCK", "UNLOCK"} :
          /\ t >= LastTs(session_events)
          /\ session_events' = Append(session_events, <<t, ev>>)
    /\ ret' = None
    /\ UNCHANGED <<now, args, measurements, daily_aggregates, engineVars, appVars>>

LockReconstruct ==
    /\ \E w \in LockWindows :
          /\ args' = [start_ts |-> w[1], end_ts |-> w[2]]
          /\ ret' = Some(_locked_intervals(session_events, w[1], w[2]))
    /\ UNCHANGED <<now, dbVars, engineVars, appVars>>

NextLock == LockSaveSessionEvent \/ LockReconstruct

SpecLock == InitLock /\ [][NextLock]_vars

\* The log with row inserted directly after its i-th event
InsertAfter(events, i, row) ==
    SubSeq(events, 1, i) \o <<row>> \o SubSeq(events, i + 1, Len(events))

\* The timestamps an event inserted directly after the i-th can carry
TimesAfter(events, i) ==
    {t \in LockPts : /\ events[i][1] <= t
                     /\ i < Len(events) => t <= events[i + 1][1]}

\* C21: lock reconstruction transitions only on kind changes: a LOCK inserted
\* directly after a LOCK, or an UNLOCK directly after an UNLOCK, leaves the
\* intervals reconstructed for the window unchanged; with no session events
\* the result is empty.
C21_RepeatedKindsIgnored ==
    ret # None =>
        /\ session_events = <<>> => ret[1] = <<>>
        /\ \A i \in 1..Len(session_events) :
              \A t \in TimesAfter(session_events, i) :
                 _locked_intervals(
                     InsertAfter(session_events, i, <<t, session_events[i][2]>>),
                     args.start_ts, args.end_ts) = ret[1]

\* The window holds two LOCKs in a row followed by an UNLOCK, and the one
\* interval reconstructed runs from the first LOCK to the UNLOCK.
C21_Witness ==
    /\ ret # None
    /\ Len(session_events) = 3
    /\ session_events[1][2] = "LOCK" /\ session_events[2][2] = "LOCK"
    /\ session_events[3][2] = "UNLOCK"
    /\ args.start_ts < session_events[1][1]
    /\ session_events[1][1] < session_events[2][1]
    /\ session_events[2][1] < session_events[3][1]
    /\ ret[1] = <<<<session_events[1][1], session_events[3][1]>>>>

\* The session is locked at time t: the latest event at or before t is a LOCK.
LockedAt(events, t) ==
    LET upto == SelectUpTo(events, t)
    IN  upto # <<>> /\ upto[Len(upto)][2] = "LOCK"

\* The seconds of the window that the intervals cover
Covered(intervals) ==
    {t \in LockPts : \E i \in 1..Len(intervals) :
                        intervals[i][1] <= t /\ t < intervals[i][2]}

\* C22: boundary handling of the lock reconstruction over a window
\* [windowStart, windowEnd] that is not empty: the intervals are not empty,
\* ascending and disjoint, and cover exactly the seconds of the window at
\* which the latest event is a LOCK; if the latest event at or before
\* windowStart is a LOCK the first interval starts at windowStart (an event at
\* exactly windowStart is prior state); if the session is still locked after
\* the last event of the window, the final interval, unless empty, ends at
\* windowEnd; a window lying inside one lock yields exactly
\* [(windowStart, windowEnd)].  An empty window has no interval.
C22_WindowBoundaries ==
    ret # None =>
        LET ws == args.start_ts
            we == args.end_ts
            n == Len(ret[1])
        IN  /\ we <= ws => ret[1] = <<>>
            /\ ws < we =>
                  /\ \A i \in 1..n : ret[1][i][1] < ret[1][i][2]
                  /\ \A i \in 1..(n - 1) : ret[1][i][2] <= ret[1][i + 1][1]
                  /\ Covered(ret[1]) =
                        {t \in ws..(we - 1) : LockedAt(session_events, t)}
                  /\ LockedAt(session_events, ws) =>
                        n >= 1 /\ ret[1][1][1] = ws
                  /\ ~LockedAt(session_events, ws) =>
                        \A i \in 1..n : ret[1][i][1] > ws
                  /\ (LockedAt(session_events, we) /\ LockedAt(session_events, we - 1)) =>
                        n >= 1 /\ ret[1][n][2] = we
                  /\ (/\ LockedAt(session_events, ws)
                      /\ \A i \in 1..Len(session_events) :
                            (ws < session_events[i][1] /\ session_events[i][1] <= we)
                               => session_events[i][2] = "LOCK") =>
                        ret[1] = <<<<ws, we>>>>

\* A LOCK at exactly windowStart, an UNLOCK and a second LOCK inside the
\* window: the first interval starts at windowStart and the last one ends at
\* windowEnd.
C22_Witness ==
    /\ ret # None
    /\ session_events = <<<<1, "LOCK">>, <<2, "UNLOCK">>, <<2, "LOCK">>>>
    /\ args = [start_ts |-> 1, end_ts |-> 3]
    /\ ret[1] = <<<<1, 2>>, <<2, 3>>>>

\* C36: for every event log and window with windowEnd > windowStart the
\* reconstructed lock intervals are non-empty (start < end), lie inside
\* [windowStart, windowEnd], are in ascending order and are pairwise
\* disjoint; for windowEnd <= windowStart the result is empty.
C36_IntervalsWellFormed ==
    ret # None =>
        LET n == Len(ret[1])
        IN  /\ args.end_ts <= args.start_ts => n = 0
            /\ \A i \in 1..n :
                   /\ ret[1][i][1] < ret[1][i][2]
                   /\ args.start_ts <= ret[1][i][1]
                   /\ ret[1][i][2] <= args.end_ts
            /\ \A i \in 1..n : \A j \in 1..n :
                   i < j => /\ ret[1][i][1] < ret[1][j][1]
                            /\ ret[1][i][2] <= ret[1][j][1]

\* A lock that began before the window is cut at windowStart, and the LOCK
\* at exactly windowEnd adds no empty interval.
C36_Witness ==
    /\ ret # None
    /\ session_events = <<<<0, "LOCK">>, <<2, "UNLOCK">>, <<3, "LOCK">>>>
    /\ args = [start_ts |-> 1, end_ts |-> 3]
    /\ ret[1] = <<<<1, 2>>>>

\* The total length of a list of intervals
RECURSIVE TotalLength(_)
TotalLength(intervals) ==
    IF intervals = <<>> THEN 0
    ELSE (intervals[1][2] - intervals[1][1]) + TotalLength(Tail(intervals))

\* C37: locked time is additive over adjacent windows: for any event log
\* and a <= b <= c the total length of the lock intervals reconstructed for
\* [a, c) equals the total for [a, b) plus the total for [b, c), also when
\* an event falls exactly on b.
C37_LockedTimeAdditive ==
    ret # None =>
        \A b \in LockPts :
            (args.start_ts <= b /\ b <= args.end_ts) =>
                TotalLength(ret[1]) =
                    TotalLength(_locked_intervals(session_events, args.start_ts, b))
                    + TotalLength(_locked_intervals(session_events, b, args.end_ts))

\* A LOCK at 1 and an UNLOCK at 2 in the window [0, 3]: cut at 1, on the
\* LOCK, and cut at 2, on the UNLOCK, the parts add up to the one second.
C37_Witness ==
    /\ ret # None
    /\ session_events = <<<<1, "LOCK">>, <<2, "UNLOCK">>>>
    /\ args = [start_ts |-> 0, end_ts |-> 3]
    /\ TotalLength(ret[1]) = 1
    /\ TotalLength(_locked_intervals(session_events, 1, 3)) = 1
    /\ TotalLength(_locked_intervals(session_events, 0, 2)) = 1

(***************************************************************************)
(* SpecWindow: compute_day_aggregates over windows of a database whose     *)
(* samples and session events are stored in the order of their             *)
(* timestamps.  args is the window, ret the pair the function returned.    *)
(***************************************************************************)
MaxWinMeas == 2
MaxWinEvents == 2

WinPts == {0, 1, 2, 3}
WinWindows == {w \in WinPts \X WinPts : w[1] <= w[2]}

InitWindow ==
    /\ IdleClock /\ IdleDb /\ IdleEngine /\ IdleApp
    /\ args = [start_ts |-> 0, end_ts |-> 0]
    /\ ret = None

\* store.save_measurement
WinSaveMeasurement ==
    /\ Len(measurements) < MaxWinMeas
    /\ \E t \in WinPts : \E h \in AggHeights :
          /\ measurements # <<>> => t > LastTs(measurements)
          /\ measurements' = Append(measurements, <<t, h>>)
    /\ ret' = None
    /\ UNCHANGED <<now, args, session_events, daily_aggregates, engineVars, appVars>>

\* store.save_session_event
WinSaveSessionEvent ==
    /\ Len(session_events) < MaxWinEvents
    /\ \E t \in WinPts : \E ev \in {"LOCK", "UNLOCK"} :
          /\ t >= LastTs(session_events)
          /\ session_events' = Append(session_events, <<t, ev>>)
    /\ ret' = None
    /\ UNCHANGED <<now, args, measurements, daily_aggregates, engineVars, appVars>>

WinCompute ==
    /\ \E w \in WinWindows :
          /\ args' = [start_ts |-> w[1], end_ts |-> w[2]]
          /\ ret' = compute_day_aggregates(measurements, session_events,
                                           w[1], w[2], stand_threshold_mm)
    /\ UNCHANGED <<now, dbVars, engineVars, appVars>>

NextWindow == WinSaveMeasurement \/ WinSaveSessionEvent \/ WinCompute

SpecWindow == InitWindow /\ [][NextWindow]_vars

\* The samples of the window
WinRows == SelectTs(measurements, args.start_ts, args.end_ts)

\* The seconds of [from_ts, windowEnd) inside the lock intervals
\* reconstructed for the window
WinLockedSince(from_ts) ==
    {t \in from_ts..(args.end_ts - 1) :
        InLock(_locked_intervals(session_events, args.start_ts, args.end_ts), t)}

\* C29: exact accounting inside a window: with the samples in ascending order
\* and the lock intervals reconstructed for the window, seated + standing is
\* (windowEnd - firstSampleTs) minus the locked time inside
\* [firstSampleTs, windowEnd); the time between windowStart and the first
\* sample of the window is attributed to nobody, and a window without a sample
\* yields (0, 0) whatever the session events are.
C29_ExactAccounting ==
    ret # None =>
        IF WinRows = <<>> THEN ret = <<0, 0>>
        ELSE ret[1] + ret[2] =
                 (args.end_ts - MinTs(WinRows)) - Cardinality(WinLockedSince(MinTs(WinRows)))

\* A window whose first sample comes after windowStart, with locked time
\* before the first sample and after it, and both postures counted.
C29_Witness ==
    /\ ret # None
    /\ WinRows # <<>>
    /\ MinTs(WinRows) > args.start_ts
    /\ WinLockedSince(args.start_ts) \ WinLockedSince(MinTs(WinRows)) # {}
    /\ WinLockedSince(MinTs(WinRows)) # {}
    /\ ret[1] + ret[2] > 0

(***************************************************************************)
(* SpecAggFault: compute_day_aggregates when sqlite may raise.  meas_ok     *)
(* and events_ok tell whether the read of measurements and the reads of     *)
(* session_events inside the try blocks succeed.                            *)
(***************************************************************************)
\* A failed read is taken as a session locked for the whole window.
locked_intervals_io_assumed_locked(events_ok, events, start_ts, end_ts) ==
    IF end_ts <= start_ts THEN <<>>
    ELSE IF ~events_ok THEN << <<start_ts, end_ts>> >>
    ELSE _locked_intervals(events, start_ts, end_ts)

\* _locked_intervals with its except branch
_locked_intervals_io(events_ok, events, start_ts, end_ts) ==
    IF end_ts <= start_ts THEN <<>>
    ELSE IF ~events_ok THEN <<>>
    ELSE _locked_intervals(events, start_ts, end_ts)

\* compute_day_aggregates with its except branch
compute_day_aggregates_io(meas_ok, events_ok, meas, events, start_ts, end_ts, thr) ==
    IF end_ts <= start_ts THEN <<0, 0>>
    ELSE LET rows == IF meas_ok THEN OrderByTs(SelectTs(meas, start_ts, end_ts))
                     ELSE <<>>
         IN  IF rows = <<>> THEN <<0, 0>>
             ELSE accumulate_sit_stand_seconds(
                      rows, _locked_intervals_io(events_ok, events, start_ts, end_ts),
                      thr, end_ts)

AggComputeIo ==
    /\ \E w \in AggWindows : \E meas_ok \in BOOLEAN, events_ok \in BOOLEAN :
          /\ args' = [start_ts |-> w[1], end_ts |-> w[2],
                      meas_ok |-> meas_ok, events_ok |-> events_ok]
          /\ ret' = compute_day_aggregates_io(meas_ok, events_ok, measurements,
                                              session_events, w[1], w[2],
                                              stand_threshold_mm)
    /\ UNCHANGED <<now, dbVars, engineVars, appVars>>

NextAggFault == AggSaveMeasurement \/ AggSaveSessionEvent \/ AggComputeIo

SpecAggFault == InitAgg /\ [][NextAggFault]_vars

\* C16: when reading session events fails, _locked_intervals returns the
\* empty list for every window, and compute_day_aggregates attributes the
\* window as if the session had never been locked.
C16_EventReadFailure ==
    (ret # None /\ ~args.events_ok) =>
        /\ _locked_intervals_io(FALSE, session_events, args.start_ts, args.end_ts)
               = <<>>
        /\ args.meas_ok =>
               ret = compute_day_aggregates(measurements, <<>>, args.start_ts,
                                            args.end_ts, stand_threshold_mm)

\* The read of the events failed for a window in which the stored events
\* lock the session while a sample holds: the pair is that of no lock at all.
C16_Witness ==
    /\ ret # None
    /\ ~args.events_ok /\ args.meas_ok
    /\ _locked_intervals(session_events, args.start_ts, args.end_ts) # <<>>
    /\ ret # compute_day_aggregates(measurements, session_events, args.start_ts,
                                    args.end_ts, stand_threshold_mm)
    /\ ret[1] + ret[2] = args.end_ts - args.start_ts

(***************************************************************************)
(* models/store.py: the daily_aggregates cache.  A row is                  *)
(* <<sitting_sec, standing_sec, updated_ts>>; every operation returns the  *)
(* table it leaves and the value it returns, as [da |-> ..., ret |-> ...]. *)
(***************************************************************************)
upsert_daily_aggregate(da, date, sitting_sec, standing_sec, updated_ts) ==
    [da EXCEPT ![date] = <<sitting_sec, standing_sec, updated_ts>>]

update_daily_aggregates_now(meas, events, da, thr, t) ==
    LET b == _day_bounds_local(t)
        r == compute_day_aggregates(meas, events, b[1], t, thr)
    IN  [da |-> upsert_daily_aggregate(da, b[2], r[1], r[2], t), ret |-> None]

\* The row is served whatever its age.
get_today_aggregates_any_age(meas, events, da, thr, t) ==
    LET b == _day_bounds_local(t)
        row == da[b[2]]
    IN  IF row # None
        THEN [da |-> da, ret |-> <<row[1], row[2]>>]
        ELSE LET r == compute_day_aggregates(meas, events, b[1], t, thr)
             IN  [da |-> upsert_daily_aggregate(da, b[2], r[1], r[2], t), ret |-> r]

get_today_aggregates(meas, events, da, thr, t) ==
    LET b == _day_bounds_local(t)
        row == da[b[2]]
    IN  IF row # None /\ row[3] >= t - FreshnessSeconds
        THEN [da |-> da, ret |-> <<row[1], row[2]>>]
        ELSE LET r == compute_day_aggregates(meas, events, b[1], t, thr)
             IN  [da |-> upsert_daily_aggregate(da, b[2], r[1], r[2], t), ret |-> r]

get_yesterday_aggregates_until_same_time(meas, events, da, thr, t) ==
    LET y_start_ts == _day_bounds_local(t)[1] - DaySeconds
        y_end_ts == y_start_ts + _seconds_since_midnight(t)
    IN  [da |-> da,
         ret |-> compute_day_aggregates(meas, events, y_start_ts, y_end_ts, thr)]

compute_full_day_aggregates_for_date(meas, events, date, thr) ==
    LET b == _day_bounds_for_date_str(date)
    IN  compute_day_aggregates(meas, events, b[1], b[2], thr)

\* No row is ever found.
get_aggregate_for_date_absent(da, date) == None

get_aggregate_for_date(da, date) ==
    IF da[date] # None THEN <<da[date][1], da[date][2]>> ELSE None

\* The row is computed and written whether or not one exists.
ensure_daily_aggregate_always(meas, events, da, date, thr, t) ==
    LET r == compute_full_day_aggregates_for_date(meas, events, date, thr)
    IN  [da |-> upsert_daily_aggregate(da, date, r[1], r[2], t), ret |-> r]

ensure_daily_aggregate(meas, events, da, date, thr, t) ==
    LET existing == get_aggregate_for_date(da, date)
    IN  IF existing # None THEN [da |-> da, ret |-> existing]
        ELSE LET r == compute_full_day_aggregates_for_date(meas, events, date, thr)
             IN  [da |-> upsert_daily_aggregate(da, date, r[1], r[2], t), ret |-> r]

\* The date before the date of t
YesterdayOf(t) == (_day_bounds_local(t)[1] - DaySeconds) \div DaySeconds

get_yesterday_full_aggregate(meas, events, da, thr, t) ==
    ensure_daily_aggregate(meas, events, da, YesterdayOf(t), thr, t)

\* The loop over the dates cur..yesterday.
RECURSIVE BackfillFrom(_, _, _, _, _, _, _)
BackfillFrom(meas, events, da, thr, t, cur, yesterday) ==
    IF cur > yesterday THEN da
    ELSE LET r == compute_full_day_aggregates_for_date(meas, events, cur, thr)
             da1 == IF da[cur] = None
                    THEN upsert_daily_aggregate(da, cur, r[1], r[2], t)
                    ELSE da
         IN  BackfillFrom(meas, events, da1, thr, t, cur + 1, yesterday)

\* The loop runs through today.
backfill_past_aggregates_through_today(meas, events, da, thr, t) ==
    IF meas = <<>> THEN [da |-> da, ret |-> None]
    ELSE [da |-> BackfillFrom(meas, events, da, thr, t,
                              _day_bounds_local(MinTs(meas))[2], YesterdayOf(t) + 1),
          ret |-> None]

backfill_past_aggregates(meas, events, da, thr, t) ==
    IF meas = <<>> THEN [da |-> da, ret |-> None]
    ELSE [da |-> BackfillFrom(meas, events, da, thr, t,
                              _day_bounds_local(MinTs(meas))[2], YesterdayOf(t)),
          ret |-> None]

clear_daily_aggregates(da) == [da |-> [d \in DOMAIN da |-> None], ret |-> None]

\* A seated and a standing desk height, in mm
Heights == {800, 950}

(***************************************************************************)
(* SpecCache: the daily_aggregates cache of models/store.py.  The clock    *)
(* visits a few instants of each day; polls and the session watcher fill   *)
(* the tables at the time of the clock; the store's cache functions are    *)
(* called at any of these instants.  args names the function of the last   *)
(* call and ret holds what it returned.                                    *)
(***************************************************************************)
MaxCacheMeas == 1
MaxCacheEvents == 1

\* The clock's days, and the seconds after midnight at which something
\* happens: midnight, and an instant at which a row written at midnight is
\* no longer fresh.
CacheDays == {0, 1}
CacheOffsets == {0, FreshnessSeconds + FreshnessSeconds \div 2}
CacheTimes == {d * DaySeconds + o : d \in CacheDays, o \in CacheOffsets}

\* The days of the clock that runs at day grain, and its instants in a day.
BackfillDays == {0, 1, 2}
BackfillOffsets == {0, DaySeconds \div 2}
BackfillTimes == {d * DaySeconds + o : d \in BackfillDays, o \in BackfillOffsets}

\* The dates a row can be written for: the clocks' days and their eves.
Dates == LET days == CacheDays \cup BackfillDays
         IN  days \cup {d - 1 : d \in days}

Today == _day_bounds_local(now)[2]

Called(fn, r) ==
    /\ daily_aggregates' = r.da
    /\ args' = [fn |-> fn]
    /\ ret' = r.ret

InitCache ==
    /\ IdleClock /\ IdleEngine /\ IdleApp
    /\ measurements = <<>>
    /\ session_events = <<>>
    /\ daily_aggregates = [d \in Dates |-> None]
    /\ args = [fn |-> "none"]
    /\ ret = None

\* Time passes.
CacheTick ==
    /\ \E t \in CacheTimes : t > now /\ now' = t
    /\ args' = [fn |-> "none"] /\ ret' = None
    /\ UNCHANGED <<dbVars, engineVars, appVars>>

\* store.save_measurement(now, h), from main.poll_once, which does nothing
\* while the session is locked
CacheSaveMeasurement ==
    /\ unlocked
    /\ Len(measurements) < MaxCacheMeas
    /\ measurements = <<>> \/ LastTs(measurements) < now
    /\ \E h \in Heights : measurements' = Append(measurements, <<now, h>>)
    /\ args' = [fn |-> "none"] /\ ret' = None
    /\ UNCHANGED <<now, session_events, daily_aggregates, engineVars, appVars>>

\* store.save_session_event(now, LOCK | UNLOCK), from the session watcher
CacheSaveSessionEvent ==
    /\ Len(session_events) < MaxCacheEvents
    /\ unlocked' = ~unlocked
    /\ session_events' =
           Append(session_events, <<now, IF unlocked THEN "LOCK" ELSE "UNLOCK">>)
    /\ args' = [fn |-> "none"] /\ ret' = None
    /\ UNCHANGED <<now, measurements, daily_aggregates, engineVars,
                   paused, calls, fed, stand_up_at, last_posture>>

CacheGetToday ==
    /\ Called("get_today_aggregates",
              get_today_aggregates(measurements, session_events, daily_aggregates,
                                   stand_threshold_mm, now))
    /\ UNCHANGED <<now, measurements, session_events, engineVars, appVars>>

CacheGetYesterdaySameTime ==
    /\ Called("get_yesterday_aggregates_until_same_time",
              get_yesterday_aggregates_until_same_time(
                  measurements, session_events, daily_aggregates,
                  stand_threshold_mm, now))
    /\ UNCHANGED <<now, measurements, session_events, engineVars, appVars>>

\* ensure_daily_aggregate for a past date
CacheEnsureDaily ==
    /\ \E d \in Dates :
          /\ d < Today
          /\ \E r \in {ensure_daily_aggregate(measurements, session_events,
                                               daily_aggregates, d,
                                               stand_threshold_mm, now)} :
                /\ daily_aggregates' = r.da
                /\ args' = [fn |-> "ensure_daily_aggregate", date |-> d]
                /\ ret' = r.ret
    /\ UNCHANGED <<now, measurements, session_events, engineVars, appVars>>

CacheGetYesterdayFull ==
    /\ Called("get_yesterday_full_aggregate",
              get_yesterday_full_aggregate(measurements, session_events,
                                           daily_aggregates,
                                           stand_threshold_mm, now))
    /\ UNCHANGED <<now, measurements, session_events, engineVars, appVars>>

CacheBackfill ==
    /\ Called("backfill_past_aggregates",
              backfill_past_aggregates(measurements, session_events,
                                       daily_aggregates, stand_threshold_mm, now))
    /\ UNCHANGED <<now, measurements, session_events, engineVars, appVars>>

CacheClear ==
    /\ Called("clear_daily_aggregates", clear_daily_aggregates(daily_aggregates))
    /\ UNCHANGED <<now, measurements, session_events, engineVars, appVars>>

CacheUpdateNow ==
    /\ Called("update_daily_aggregates_now",
              update_daily_aggregates_now(measurements, session_events,
                                          daily_aggregates, stand_threshold_mm, now))
    /\ UNCHANGED <<now, measurements, session_events, engineVars, appVars>>

NextCache ==
    \/ CacheTick
    \/ CacheSaveMeasurement
    \/ CacheSaveSessionEvent
    \/ CacheGetToday
    \/ CacheGetYesterdaySameTime
    \/ CacheEnsureDaily
    \/ CacheGetYesterdayFull
    \/ CacheBackfill
    \/ CacheClear
    \/ CacheUpdateNow

SpecCache == InitCache /\ [][NextCache]_vars

(***************************************************************************)
(* SpecToday: today's row of the cache over the first minutes of one day,  *)
(* with the clock at instants inside, on the edge of and beyond the        *)
(* freshness window of a row written at midnight.                          *)
(***************************************************************************)
TodayOffsets == {0, FreshnessSeconds \div 2, FreshnessSeconds,
                 FreshnessSeconds + FreshnessSeconds \div 2}

\* Time passes.
TodayTick ==
    /\ \E t \in TodayOffsets : t > now /\ now' = t
    /\ args' = [fn |-> "none"] /\ ret' = None
    /\ UNCHANGED <<dbVars, engineVars, appVars>>

NextToday ==
    \/ TodayTick
    \/ CacheSaveMeasurement
    \/ CacheSaveSessionEvent
    \/ CacheGetToday
    \/ CacheUpdateNow
    \/ CacheClear

SpecToday == InitCache /\ [][NextToday]_vars

\* computeForRange(midnight, t) from the tables as they are
TodayUntil(t) ==
    compute_day_aggregates(measurements, session_events, Today * DaySeconds, t,
                           stand_threshold_mm)

\* Today's row exists and its updatedAt is at most 120 seconds old.
TodayRowFresh ==
    /\ daily_aggregates[Today] # None
    /\ daily_aggregates[Today][3] >= now - FreshnessSeconds

\* C12: when today's row has updatedAt within the 120 seconds before now,
\* get_today_aggregates returns the cached pair and writes nothing; when the
\* row is absent or older it recomputes over [midnight, now], upserts the row
\* with updatedAt = now and returns the fresh pair.  Either way the pair is
\* computeForRange(midnight, t) for a t with now - 120 <= t <= now.
C12_TodayFreshness ==
    [][args'.fn = "get_today_aggregates" =>
          /\ TodayRowFresh =>
                 /\ ret' = <<daily_aggregates[Today][1], daily_aggregates[Today][2]>>
                 /\ daily_aggregates' = daily_aggregates
          /\ ~TodayRowFresh =>
                 /\ ret' = TodayUntil(now)
                 /\ daily_aggregates' =
                        [daily_aggregates EXCEPT
                            ![Today] = <<TodayUntil(now)[1], TodayUntil(now)[2], now>>]
          /\ \E t \in (now - FreshnessSeconds)..now :
                 /\ t = daily_aggregates'[Today][3]
                 /\ ret' = TodayUntil(t)]_vars

\* get_today_aggregates served a row written earlier, at the edge of the
\* freshness window, although a fresh computation would give another pair.
C12_Witness ==
    /\ args.fn = "get_today_aggregates"
    /\ daily_aggregates[Today] # None
    /\ daily_aggregates[Today][3] = now - FreshnessSeconds
    /\ ret = <<daily_aggregates[Today][1], daily_aggregates[Today][2]>>
    /\ ret # TodayUntil(now)

(***************************************************************************)
(* SpecBackfill: the cache over several days, with the clock at midnight   *)
(* and noon; rows come from getToday, ensureDaily and backfillPast.        *)
(***************************************************************************)
\* Time passes.
BackfillTick ==
    /\ \E t \in BackfillTimes : t > now /\ now' = t
    /\ args' = [fn |-> "none"] /\ ret' = None
    /\ UNCHANGED <<dbVars, engineVars, appVars>>

NextBackfill ==
    \/ BackfillTick
    \/ CacheSaveMeasurement
    \/ CacheGetToday
    \/ CacheEnsureDaily
    \/ CacheBackfill
    \/ CacheClear

SpecBackfill == InitCache /\ [][NextBackfill]_vars

\* The local date of the earliest measurement of a table that is not empty.
EarliestDate ==
    CHOOSE d \in Dates :
        /\ \E i \in 1..Len(measurements) : measurements[i][1] \div DaySeconds = d
        /\ \A i \in 1..Len(measurements) : measurements[i][1] \div DaySeconds >= d

\* C13: after backfillPast every date from the date of the earliest
\* measurement up to and including yesterday has a row, no row is created for
\* today or later, the rows that existed are unchanged, and with no
\* measurements at all the cache is unchanged.
C13_BackfillCoversPast ==
    [][args'.fn = "backfill_past_aggregates" =>
          /\ measurements = <<>> => daily_aggregates' = daily_aggregates
          /\ \A d \in Dates :
                /\ (measurements # <<>> /\ EarliestDate <= d /\ d < Today)
                       => daily_aggregates'[d] # None
                /\ daily_aggregates[d] # None
                       => daily_aggregates'[d] = daily_aggregates[d]
                /\ (d >= Today /\ daily_aggregates[d] = None)
                       => daily_aggregates'[d] = None]_vars

\* backfillPast ran on the third day over a history that starts on the first:
\* the first day's row is older than the call, the second day's row was
\* written by it, today has none.
C13_Witness ==
    /\ args.fn = "backfill_past_aggregates"
    /\ Today = 2
    /\ measurements # <<>> /\ EarliestDate = 0
    /\ daily_aggregates[0] # None /\ daily_aggregates[0][3] < now
    /\ daily_aggregates[1] # None /\ daily_aggregates[1][3] = now
    /\ daily_aggregates[2] = None

\* computeForRange over the whole of yesterday, from the tables as they are
YesterdayWholeDay ==
    compute_day_aggregates(measurements, session_events,
                           (Today - 1) * DaySeconds, Today * DaySeconds,
                           stand_threshold_mm)

\* C9: what get_yesterday_full_aggregate returns equals computeForRange over
\* yesterday's whole local day [midnight, midnight + 24h), whatever
\* measurements were stored and whatever cache operations ran before,
\* getToday refreshes of that day included.
C9_YesterdayFullIsWholeDay ==
    args.fn = "get_yesterday_full_aggregate" => ret = YesterdayWholeDay

\* C11: ensureDaily is idempotent: the first ensureDaily(date) persists the
\* pair it returns, and a call that finds the row returns the same pair and
\* leaves the row, values and updatedAt, exactly as it was.
C11_EnsureIdempotent ==
    [][\A d \in Dates :
          (args'.fn = "ensure_daily_aggregate" /\ args'.date = d) =>
              /\ daily_aggregates'[d] # None
              /\ ret' = <<daily_aggregates'[d][1], daily_aggregates'[d][2]>>
              /\ daily_aggregates[d] # None =>
                     /\ ret' = <<daily_aggregates[d][1], daily_aggregates[d][2]>>
                     /\ daily_aggregates' = daily_aggregates]_vars

\* ensureDaily ran for a past day that has a sample, at a time later than the
\* row's updatedAt, which itself is later than that day: an earlier
\* ensureDaily or backfill wrote the row, and this call returned its pair.
C11_Witness ==
    /\ args.fn = "ensure_daily_aggregate"
    /\ args.date = Today - 1
    /\ \E i \in 1..Len(measurements) :
           _day_bounds_local(measurements[i][1])[2] = Today - 1
    /\ daily_aggregates[Today - 1] # None
    /\ daily_aggregates[Today - 1][3] >= Today * DaySeconds
    /\ daily_aggregates[Today - 1][3] < now
    /\ ret = <<daily_aggregates[Today - 1][1], daily_aggregates[Today - 1][2]>>
    /\ ret # <<0, 0>>

\* C10: a daily_aggregates row of a date before today, once present, is left
\* as it is by every step other than clear_daily_aggregates: getToday,
\* getYesterdaySameClockTime, ensureDaily, get_yesterday_full_aggregate,
\* backfillPast, update of today's row, new measurements and session events.
C10_PastRowsImmutable ==
    [][args'.fn # "clear_daily_aggregates" =>
          \A d \in Dates :
              (d < Today /\ daily_aggregates[d] # None)
                  => daily_aggregates'[d] = daily_aggregates[d]]_vars

\* get_yesterday_full_aggregate ran on a day whose eve has a row written
\* before today that a fresh computation would not reproduce, and returned it.
C10_Witness ==
    /\ args.fn = "get_yesterday_full_aggregate"
    /\ daily_aggregates[Today - 1] # None
    /\ daily_aggregates[Today - 1][3] < Today * DaySeconds
    /\ <<daily_aggregates[Today - 1][1], daily_aggregates[Today - 1][2]>>
           # YesterdayWholeDay
    /\ ret = <<daily_aggregates[Today - 1][1], daily_aggregates[Today - 1][2]>>

(***************************************************************************)
(* SpecRecalc: views/main_window.py, the user-triggered recalculation.     *)
(* _on_recalc_clicked starts the thread _work and arms _check_done; the    *)
(* main thread goes on serving its timers: _check_done, the periodic       *)
(* refresh_stats and the poll that saves a measurement.  Every storage     *)
(* call of either thread is one step.  args holds the position of both     *)
(* threads:                                                                *)
(*   clicks      recalculations started                                    *)
(*   worker      the position of _work                                     *)
(*   w_now, cur  backfill_past_aggregates' now and loop date               *)
(*   ran         the calls of _work that returned                          *)
(*   failed      a storage call of _work failed                            *)
(*   done        done_flag["done"]                                         *)
(*   moment      the last step set the flag                                *)
(*   main        the position of the main thread inside refresh_stats      *)
(*   m_now       the clock value or the date the main thread read          *)
(*   by_check    refresh_stats was called by _check_done                   *)
(*   refreshed   that refresh_stats has returned                           *)
(***************************************************************************)
MaxRecalcClicks == 1
MaxRecalcMeas == 1

\* The clock's instants: a midnight, the noon after it and the next midnight
RecalcTimes == {0, DaySeconds \div 2, DaySeconds}

\* The handler of _work: an exception leaves the try block for the finally
\* clause, a return goes on with the next statement.
_work_unguarded(next, raised) == IF raised THEN "exit" ELSE next

_work(next, raised) == IF raised THEN "finally" ELSE next

IdleRecalc ==
    [clicks |-> 0, worker |-> "none", w_now |-> 0, cur |-> 0, ran |-> <<>>,
     failed |-> FALSE, done |-> FALSE, moment |-> FALSE, main |-> "idle",
     m_now |-> 0, by_check |-> FALSE, refreshed |-> FALSE]

InitRecalc ==
    /\ IdleClock /\ IdleEngine /\ IdleApp
    /\ measurements = <<>>
    /\ session_events = <<>>
    /\ daily_aggregates = [d \in Dates |-> None]
    /\ args = IdleRecalc
    /\ ret = None

\* What every step leaves alone but the clock, the tables and args.
RecalcFrame == ret' = None /\ UNCHANGED <<session_events, engineVars, appVars>>

\* Time passes.
RecalcTick ==
    /\ \E t \in RecalcTimes : t > now /\ now' = t
    /\ args' = [args EXCEPT !.moment = FALSE]
    /\ RecalcFrame
    /\ UNCHANGED <<measurements, daily_aggregates>>

\* main.poll_once on the main thread: store.save_measurement(now, h)
RecalcSaveMeasurement ==
    /\ args.main = "idle"
    /\ Len(measurements) < MaxRecalcMeas
    /\ measurements = <<>> \/ LastTs(measurements) < now
    /\ \E h \in Heights : measurements' = Append(measurements, <<now, h>>)
    /\ args' = [args EXCEPT !.moment = FALSE]
    /\ RecalcFrame
    /\ UNCHANGED <<now, daily_aggregates>>

\* _on_recalc_clicked, confirmed: the flag is created unset, the thread
\* started and _check_done armed.  The modal dialog keeps the button away
\* until _check_done has closed it.
RecalcClicked ==
    /\ args.main = "idle"
    /\ args.clicks < MaxRecalcClicks
    /\ args.worker = "none" \/ args.refreshed
    /\ args' = [IdleRecalc EXCEPT !.clicks = args.clicks + 1, !.worker = "clear"]
    /\ RecalcFrame
    /\ UNCHANGED <<now, measurements, daily_aggregates>>

\* _work: store.clear_daily_aggregates().  The DELETE may fail, which the
\* function swallows; db_path() may raise, which it does not.
WorkClear ==
    /\ args.worker = "clear"
    /\ \E outcome \in {"ok", "swallowed", "raised"} :
          /\ daily_aggregates' =
                 IF outcome = "ok"
                 THEN clear_daily_aggregates(daily_aggregates).da
                 ELSE daily_aggregates
          /\ args' = [args EXCEPT
                 !.worker = _work("backfill", outcome = "raised"),
                 !.ran = IF outcome = "raised" THEN @ ELSE Append(@, "clear"),
                 !.failed = @ \/ outcome # "ok"]
    /\ RecalcFrame
    /\ UNCHANGED <<now, measurements>>

\* _work: store.backfill_past_aggregates(stand_thr) up to the loop: now is
\* read, then SELECT MIN(ts) FROM measurements.
WorkBackfillFirst ==
    /\ args.worker = "backfill"
    /\ \E outcome \in {"ok", "swallowed", "raised"} :
          args' = [args EXCEPT
              !.worker = IF outcome = "ok" /\ measurements # <<>>
                         THEN "loop"
                         ELSE _work("update", outcome = "raised"),
              !.w_now = IF outcome = "ok" /\ measurements # <<>> THEN now ELSE 0,
              !.cur = IF outcome = "ok" /\ measurements # <<>>
                      THEN _day_bounds_local(MinTs(measurements))[2] ELSE 0,
              !.ran = IF (outcome = "ok" /\ measurements # <<>>)
                         \/ outcome = "raised"
                      THEN @ ELSE Append(@, "backfill"),
              !.failed = @ \/ outcome # "ok"]
    /\ RecalcFrame
    /\ UNCHANGED <<now, measurements, daily_aggregates>>

\* The loop's test and SELECT 1 FROM daily_aggregates WHERE date = cur
WorkBackfillSelect ==
    /\ args.worker = "loop"
    /\ \E ok \in BOOLEAN :
          args' =
              IF ~ok \/ args.cur > YesterdayOf(args.w_now)
              THEN [args EXCEPT !.worker = "update", !.w_now = 0, !.cur = 0,
                                !.ran = Append(@, "backfill"),
                                !.failed = @ \/ ~ok]
              ELSE IF daily_aggregates[args.cur] # None
              THEN [args EXCEPT !.cur = @ + 1]
              ELSE [args EXCEPT !.worker = "row"]
    /\ RecalcFrame
    /\ UNCHANGED <<now, measurements, daily_aggregates>>

\* The loop's compute_full_day_aggregates_for_date and upsert for cur
WorkBackfillUpsert ==
    /\ args.worker = "row"
    /\ \E ok \in BOOLEAN :
          IF ok
          THEN LET r == compute_full_day_aggregates_for_date(
                            measurements, session_events, args.cur,
                            stand_threshold_mm)
               IN  /\ daily_aggregates' =
                          upsert_daily_aggregate(daily_aggregates, args.cur,
                                                 r[1], r[2], args.w_now)
                   /\ args' = [args EXCEPT !.worker = "loop", !.cur = @ + 1]
          ELSE /\ daily_aggregates' = daily_aggregates
               /\ args' = [args EXCEPT !.worker = "update", !.w_now = 0,
                                       !.cur = 0,
                                       !.ran = Append(@, "backfill"),
                                       !.failed = TRUE]
    /\ RecalcFrame
    /\ UNCHANGED <<now, measurements>>

\* _work: store.update_daily_aggregates_now(stand_thr) reads the clock.
WorkUpdateNow ==
    /\ args.worker = "update"
    /\ args' = [args EXCEPT !.worker = "upsert", !.w_now = now]
    /\ RecalcFrame
    /\ UNCHANGED <<now, measurements, daily_aggregates>>

\* update_daily_aggregates_now computes and upserts the row of the day it
\* read; a failure is raised to _work.
WorkUpdateUpsert ==
    /\ args.worker = "upsert"
    /\ \E ok \in BOOLEAN :
          /\ daily_aggregates' =
                 IF ok
                 THEN update_daily_aggregates_now(
                          measurements, session_events, daily_aggregates,
                          stand_threshold_mm, args.w_now).da
                 ELSE daily_aggregates
          /\ args' = [args EXCEPT
                 !.worker = _work("finally", ~ok), !.w_now = 0,
                 !.ran = IF ok THEN Append(@, "update") ELSE @,
                 !.failed = @ \/ ~ok]
    /\ RecalcFrame
    /\ UNCHANGED <<now, measurements>>

\* _work: finally: done_flag["done"] = True
WorkFinally ==
    /\ args.worker = "finally"
    /\ args' = [args EXCEPT !.worker = "exit", !.done = TRUE, !.moment = TRUE]
    /\ RecalcFrame
    /\ UNCHANGED <<now, measurements, daily_aggregates>>

Work ==
    \/ WorkClear
    \/ WorkBackfillFirst
    \/ WorkBackfillSelect
    \/ WorkBackfillUpsert
    \/ WorkUpdateNow
    \/ WorkUpdateUpsert
    \/ WorkFinally

\* _check_done on the main thread: with the flag set it closes the dialog
\* and calls refresh_stats, otherwise it arms itself again.
CheckDone ==
    /\ args.main = "idle"
    /\ args.clicks > 0 /\ ~args.by_check /\ ~args.refreshed
    /\ args' = IF args.done
               THEN [args EXCEPT !.main = "today", !.by_check = TRUE,
                                 !.moment = FALSE]
               ELSE [args EXCEPT !.moment = FALSE]
    /\ RecalcFrame
    /\ UNCHANGED <<now, measurements, daily_aggregates>>

\* The timeout of _stats_timer calls refresh_stats.
StatsTimeout ==
    /\ args.main = "idle"
    /\ args' = [args EXCEPT !.main = "today", !.moment = FALSE]
    /\ RecalcFrame
    /\ UNCHANGED <<now, measurements, daily_aggregates>>

\* refresh_stats: get_today_aggregates reads the clock and today's row.
RefreshTodaySelect ==
    /\ args.main = "today"
    /\ LET row == daily_aggregates[Today]
       IN  args' = IF row # None /\ row[3] >= now - FreshnessSeconds
                   THEN [args EXCEPT !.main = "yesterday", !.moment = FALSE]
                   ELSE [args EXCEPT !.main = "today_upsert", !.m_now = now,
                                     !.moment = FALSE]
    /\ RecalcFrame
    /\ UNCHANGED <<now, measurements, daily_aggregates>>

\* get_today_aggregates computes and upserts the row of the day it read.
RefreshTodayUpsert ==
    /\ args.main = "today_upsert"
    /\ daily_aggregates' =
           update_daily_aggregates_now(measurements, session_events,
                                       daily_aggregates, stand_threshold_mm,
                                       args.m_now).da
    /\ args' = [args EXCEPT !.main = "yesterday", !.m_now = 0, !.moment = FALSE]
    /\ RecalcFrame
    /\ UNCHANGED <<now, measurements>>

\* The return of refresh_stats
Refreshed == [args EXCEPT !.main = "idle", !.m_now = 0, !.by_check = FALSE,
                          !.refreshed = @ \/ args.by_check, !.moment = FALSE]

\* refresh_stats: get_yesterday_full_aggregate reads the clock and
\* yesterday's row.
RefreshYesterdaySelect ==
    /\ args.main = "yesterday"
    /\ args' = IF get_aggregate_for_date(daily_aggregates, YesterdayOf(now)) # None
               THEN Refreshed
               ELSE [args EXCEPT !.main = "ensure", !.m_now = now,
                                 !.moment = FALSE]
    /\ RecalcFrame
    /\ UNCHANGED <<now, measurements, daily_aggregates>>

\* ensure_daily_aggregate computes the whole day and upserts it with the
\* clock's time.
RefreshYesterdayUpsert ==
    /\ args.main = "ensure"
    /\ LET date == YesterdayOf(args.m_now)
           r == compute_full_day_aggregates_for_date(
                    measurements, session_events, date, stand_threshold_mm)
       IN  daily_aggregates' =
               upsert_daily_aggregate(daily_aggregates, date, r[1], r[2], now)
    /\ args' = Refreshed
    /\ RecalcFrame
    /\ UNCHANGED <<now, measurements>>

RefreshStats ==
    \/ RefreshTodaySelect
    \/ RefreshTodayUpsert
    \/ RefreshYesterdaySelect
    \/ RefreshYesterdayUpsert

NextRecalc ==
    \/ RecalcTick
    \/ RecalcSaveMeasurement
    \/ RecalcClicked
    \/ WorkClear
    \/ WorkBackfillFirst
    \/ WorkBackfillSelect
    \/ WorkBackfillUpsert
    \/ WorkUpdateNow
    \/ WorkUpdateUpsert
    \/ WorkFinally
    \/ CheckDone
    \/ StatsTimeout
    \/ RefreshTodaySelect
    \/ RefreshTodayUpsert
    \/ RefreshYesterdaySelect
    \/ RefreshYesterdayUpsert

\* The thread runs while it has a statement left; the event loop runs the
\* handler it is in to its end, and between the handlers of its other timers
\* it comes to the armed _check_done.
\* Written with the actions' guards in the place of ENABLED.
WorkReady == args.worker \notin {"none", "exit"}
RefreshReady == args.main # "idle"
CheckReady ==
    /\ args.main = "idle"
    /\ args.clicks > 0 /\ ~args.by_check /\ ~args.refreshed
    /\ args.done

SpecRecalc ==
    /\ InitRecalc /\ [][NextRecalc]_vars
    /\ []<>(~WorkReady) \/ []<><<Work>>_vars
    /\ []<>(~RefreshReady) \/ []<><<RefreshStats>>_vars
    /\ <>[](~CheckReady) \/ []<><<CheckDone>>_vars

\* C31: the recalculation always signals completion: _work sets the flag
\* after clear, backfill and today's update have returned, and also when one
\* of them fails; the refresh_stats of that recalculation starts only with
\* the flag seen set, and it comes: every recalculation started is followed
\* by the flag set and by its refresh.
C31_RecalcSignalsCompletion ==
    /\ [](args.done =>
             /\ args.worker = "exit"
             /\ args.failed \/ args.ran = <<"clear", "backfill", "update">>)
    /\ [](args.worker = "exit" => args.done)
    /\ []((args.by_check \/ args.refreshed) => args.done)
    /\ [][(args'.by_check /\ ~args.by_check) => args.done]_vars
    /\ (args.worker = "clear") ~> args.done
    /\ (args.worker = "clear") ~> args.refreshed

\* The refresh of a recalculation whose backfill raised has returned.
C31_Witness ==
    /\ args.refreshed
    /\ args.failed
    /\ args.ran = <<"clear">>

\* C32: recalculation under interleaving with the main thread: with every
\* storage call succeeding, at the moment the flag is set the cache holds a
\* row for every date from the earliest measurement's date through today,
\* and every row of a date before today is the full-day computation for it.
C32_AsStated ==
    (args.moment /\ ~args.failed) =>
        /\ measurements # <<>> =>
               \A d \in Dates :
                   (EarliestDate <= d /\ d <= Today) => daily_aggregates[d] # None
        /\ \A d \in Dates :
               (d < Today /\ daily_aggregates[d] # None) =>
                   <<daily_aggregates[d][1], daily_aggregates[d][2]>> =
                       compute_full_day_aggregates_for_date(
                           measurements, session_events, d, stand_threshold_mm)

(***************************************************************************)
(* services/reminder.py.  The engine's fields are passed as the record     *)
(* e = [snoozed_until, next_ready_at, next_ready_seated,                   *)
(* next_ready_standing, lock_started_at], each None or Some(seconds).      *)
(***************************************************************************)
SecondsPerMinute == 60
RowLimit == 1000

\* ReminderEngine.cfg, with the thresholds of the model's configuration
cfg == [stand_threshold_mm |-> stand_threshold_mm,
        remind_after_minutes |-> 1,
        remind_repeat_minutes |-> 2,
        snooze_minutes |-> 1,
        standing_check_after_minutes |-> 1,
        standing_check_repeat_minutes |-> 2,
        lock_reset_threshold_minutes |-> 1]

Engine == [snoozed_until |-> snoozed_until,
           next_ready_at |-> next_ready_at,
           next_ready_seated |-> next_ready_seated,
           next_ready_standing |-> next_ready_standing,
           lock_started_at |-> lock_started_at]

\* The snooze never applies.
is_snoozed_never(e, t) == FALSE

is_snoozed(e, t) ==
    IF e.snoozed_until = None THEN FALSE ELSE t < e.snoozed_until[1]

snooze(e, minutes, t) ==
    [e EXCEPT !.snoozed_until = Some(t + minutes * SecondsPerMinute)]

\* The start of the lock is not recorded.
_on_locked_unrecorded(e, t) == e

_on_locked(e, t) == [e EXCEPT !.lock_started_at = Some(t)]

\* The timer is not moved.
Unshifted(opt, delta) == opt

\* The timer is moved twice.
ShiftedTwice(opt, delta) ==
    IF opt = None THEN None ELSE Some(opt[1] + 2 * delta)

Shifted(opt, delta) == IF opt = None THEN None ELSE Some(opt[1] + delta)

_on_unlocked(e, t) ==
    IF e.lock_started_at = None THEN e
    ELSE LET delta == t - e.lock_started_at[1]
         IN  [snoozed_until |-> Shifted(e.snoozed_until, delta),
              next_ready_at |-> Shifted(e.next_ready_at, delta),
              next_ready_standing |-> Shifted(e.next_ready_standing, delta),
              next_ready_seated |-> Shifted(e.next_ready_seated, delta),
              lock_started_at |-> None]

\* ORDER BY ts DESC LIMIT 1: the last row of the ascending order
LastByTs(rows) == LET o == OrderByTs(rows) IN o[Len(o)]

_last_long_lock_unlock_ts(events, threshold_minutes) ==
    LET threshold_sec == Max(0, threshold_minutes) * SecondsPerMinute
        unlocks == SelectEvent(events, "UNLOCK")
    IN  IF unlocks = <<>> THEN None
        ELSE LET unlock_ts == LastByTs(unlocks)[1]
                 locks == SelectUpTo(SelectEvent(events, "LOCK"), unlock_ts)
             IN  IF locks = <<>> THEN None
                 ELSE IF unlock_ts - LastByTs(locks)[1] >= threshold_sec
                      THEN Some(unlock_ts)
                      ELSE None

\* ORDER BY ts DESC LIMIT 1000
RECURSIVE Reverse(_)
Reverse(q) == IF q = <<>> THEN <<>>
              ELSE Append(Reverse(SubSeq(q, 2, Len(q))), q[1])

RecentRows(meas) ==
    LET d == Reverse(OrderByTs(meas)) IN SubSeq(d, 1, Min(Len(d), RowLimit))

\* The walk back over rows i.. while the posture holds: the last ts it reaches.
RECURSIVE WalkBack(_, _, _, _, _)
WalkBack(rows, i, standing, thr, last_ts) ==
    IF i > Len(rows) THEN last_ts
    ELSE IF (rows[i][2] >= thr) # standing THEN last_ts
    ELSE WalkBack(rows, i + 1, standing, thr, rows[i][1])

\* The streak is measured from the oldest row, whatever the postures.
StreakMinutesSinceFirstRow(c, meas, events, now_ts, standing) ==
    LET last_ts == IF meas = <<>> THEN now_ts ELSE MinTs(meas)
    IN  Max(0, now_ts - last_ts) \div SecondsPerMinute

\* The streak starts at the long lock's UNLOCK whenever there is one.
StreakMinutesFromUnlock(c, meas, events, now_ts, standing) ==
    LET last_ts == WalkBack(RecentRows(meas), 1, standing,
                            c.stand_threshold_mm, now_ts)
        lu_ts == _last_long_lock_unlock_ts(events, c.lock_reset_threshold_minutes)
        start == IF lu_ts # None THEN lu_ts[1] ELSE last_ts
    IN  Max(0, now_ts - start) \div SecondsPerMinute

\* c is self.cfg
StreakMinutes(c, meas, events, now_ts, standing) ==
    LET last_ts == WalkBack(RecentRows(meas), 1, standing,
                            c.stand_threshold_mm, now_ts)
        lu_ts == _last_long_lock_unlock_ts(events, c.lock_reset_threshold_minutes)
        start == IF lu_ts # None /\ lu_ts[1] > last_ts THEN lu_ts[1] ELSE last_ts
    IN  Max(0, now_ts - start) \div SecondsPerMinute

_compute_seated_streak_minutes(c, meas, events, now_ts, latest_height) ==
    IF latest_height >= c.stand_threshold_mm THEN 0
    ELSE StreakMinutes(c, meas, events, now_ts, FALSE)

_compute_standing_streak_minutes(c, meas, events, now_ts, latest_height) ==
    IF latest_height < c.stand_threshold_mm THEN 0
    ELSE StreakMinutes(c, meas, events, now_ts, TRUE)

\* The cadence timer is never looked at.
cadence_due_always(next_ready, t) == TRUE

\* A cadence timer that was set never becomes due again.
cadence_due_once(next_ready, t) == next_ready = None

\* next_ready is None or t >= next_ready
cadence_due(next_ready, t) == next_ready = None \/ t >= next_ready[1]

\* The two notifications carry each other's title.
fire_reminders_mislabelled(e, meas, events, ts, height_mm, t) ==
    LET is_standing == height_mm >= cfg.stand_threshold_mm
        seated_streak_min == _compute_seated_streak_minutes(cfg, meas, events, ts, height_mm)
        standing_streak_min == _compute_standing_streak_minutes(cfg, meas, events, ts, height_mm)
        stand_up == /\ ~is_standing
                    /\ seated_streak_min >= cfg.remind_after_minutes
                    /\ cadence_due(e.next_ready_seated, t)
        e1 == IF stand_up
              THEN [e EXCEPT !.next_ready_seated =
                        Some(t + cfg.remind_repeat_minutes * SecondsPerMinute)]
              ELSE e
        posture_check == /\ is_standing
                         /\ standing_streak_min >= cfg.standing_check_after_minutes
                         /\ cadence_due(e1.next_ready_standing, t)
        e2 == IF posture_check
              THEN [e1 EXCEPT !.next_ready_standing =
                        Some(t + cfg.standing_check_repeat_minutes * SecondsPerMinute)]
              ELSE e1
    IN  [e |-> e2,
         calls |-> (IF stand_up THEN <<"Posture check">> ELSE <<>>)
                   \o (IF posture_check THEN <<"Stand up">> ELSE <<>>)]

\* The two reminder blocks: [e |-> engine, calls |-> titles notified].
fire_reminders(e, meas, events, ts, height_mm, t) ==
    LET is_standing == height_mm >= cfg.stand_threshold_mm
        seated_streak_min == _compute_seated_streak_minutes(cfg, meas, events, ts, height_mm)
        standing_streak_min == _compute_standing_streak_minutes(cfg, meas, events, ts, height_mm)
        stand_up == /\ ~is_standing
                    /\ seated_streak_min >= cfg.remind_after_minutes
                    /\ cadence_due(e.next_ready_seated, t)
        e1 == IF stand_up
              THEN [e EXCEPT !.next_ready_seated =
                        Some(t + cfg.remind_repeat_minutes * SecondsPerMinute)]
              ELSE e
        posture_check == /\ is_standing
                         /\ standing_streak_min >= cfg.standing_check_after_minutes
                         /\ cadence_due(e1.next_ready_standing, t)
        e2 == IF posture_check
              THEN [e1 EXCEPT !.next_ready_standing =
                        Some(t + cfg.standing_check_repeat_minutes * SecondsPerMinute)]
              ELSE e1
    IN  [e |-> e2,
         calls |-> (IF stand_up THEN <<"Stand up">> ELSE <<>>)
                   \o (IF posture_check THEN <<"Posture check">> ELSE <<>>)]

\* The cadence timers are left as they are.
evaluate_measurement_without_reset(e, meas, events, ts, height_mm, t) ==
    IF is_snoozed(e, t) THEN [e |-> e, calls |-> <<>>]
    ELSE fire_reminders(e, meas, events, ts, height_mm, t)

\* on_new_measurement once the session is known to be unlocked.
evaluate_measurement(e, meas, events, ts, height_mm, t) ==
    LET is_standing == height_mm >= cfg.stand_threshold_mm
        e1 == IF is_standing
              THEN [e EXCEPT !.next_ready_seated = None, !.next_ready_at = None]
              ELSE [e EXCEPT !.next_ready_standing = None, !.next_ready_at = None]
    IN  IF is_snoozed(e1, t) THEN [e |-> e1, calls |-> <<>>]
        ELSE fire_reminders(e1, meas, events, ts, height_mm, t)

\* The lock check is skipped.
on_new_measurement_unguarded(e, is_unlocked, meas, events, ts, height_mm, t) ==
    evaluate_measurement(e, meas, events, ts, height_mm, t)

on_new_measurement(e, is_unlocked, meas, events, ts, height_mm, t) ==
    IF ~is_unlocked THEN [e |-> e, calls |-> <<>>]
    ELSE evaluate_measurement(e, meas, events, ts, height_mm, t)

(***************************************************************************)
(* SpecStreak: _compute_seated_streak_minutes over stored histories.  The  *)
(* tables are filled with samples and LOCK/UNLOCK pairs in time order,     *)
(* then the streak is computed at StreakNow.                               *)
(***************************************************************************)
MaxStreakMeas == 1
MaxStreakEvents == 4

\* tests/test_reminder.py, test_lock_reset_creates_new_timewindow_even_if_
\* later_short_lock, with now = 5000
LockResetScenario ==
    [now |-> 5000,
     lock_reset_threshold_minutes |-> 5,
     measurements |-> << <<0, 800>> >>,
     session_events |-> << <<4400, "LOCK">>, <<4700, "UNLOCK">>,
                           <<4940, "LOCK">>, <<4970, "UNLOCK">> >>]

StreakPts == {0} \cup {LockResetScenario.session_events[i][1] : i \in 1..4}
StreakThresholds == {1, LockResetScenario.lock_reset_threshold_minutes}

StreakCfg == [cfg EXCEPT !.lock_reset_threshold_minutes =
                             args.lock_reset_threshold_minutes]

InitStreak ==
    /\ now = LockResetScenario.now
    /\ IdleDb /\ IdleEngine /\ IdleApp
    /\ args \in [lock_reset_threshold_minutes : StreakThresholds]
    /\ ret = None

\* store.save_measurement of an earlier poll
StreakSaveMeasurement ==
    /\ Len(measurements) < MaxStreakMeas
    /\ \E t \in StreakPts, h \in Heights :
          /\ measurements = <<>> \/ LastTs(measurements) < t
          /\ measurements' = Append(measurements, <<t, h>>)
    /\ ret' = None
    /\ UNCHANGED <<now, args, session_events, daily_aggregates, engineVars, appVars>>

\* store.save_session_event by the session watcher, LOCK and UNLOCK in turn
StreakSaveSessionEvent ==
    /\ Len(session_events) < MaxStreakEvents
    /\ \E t \in StreakPts :
          /\ session_events = <<>> \/ LastTs(session_events) < t
          /\ session_events' =
                 Append(session_events,
                        <<t, IF Len(session_events) % 2 = 0 THEN "LOCK" ELSE "UNLOCK">>)
    /\ ret' = None
    /\ UNCHANGED <<now, args, measurements, daily_aggregates, engineVars, appVars>>

\* _compute_seated_streak_minutes(now, 800): the latest sample is seated
StreakCompute ==
    /\ ret = None
    /\ ret' = Some(_compute_seated_streak_minutes(StreakCfg, measurements,
                                                  session_events, now, 800))
    /\ UNCHANGED <<now, args, dbVars, engineVars, appVars>>

NextStreak ==
    \/ StreakSaveMeasurement
    \/ StreakSaveSessionEvent
    \/ StreakCompute

SpecStreak == InitStreak /\ [][NextStreak]_vars

\* The UNLOCK timestamps whose LOCK, the event stored just before, is at
\* least the threshold older.
LongUnlocks ==
    {session_events[i][1] : i \in
        {j \in 2..Len(session_events) :
            /\ session_events[j][2] = "UNLOCK"
            /\ session_events[j][1] - session_events[j - 1][1]
                   >= args.lock_reset_threshold_minutes * SecondsPerMinute}}

SetMax(S) == CHOOSE x \in S : \A y \in S : y <= x

\* The start of the seated run of samples that ends at the latest sample.
SeatedRunStart ==
    WalkBack(RecentRows(measurements), 1, FALSE, cfg.stand_threshold_mm, now)

\* C4: the seated streak is counted from the most recent UNLOCK that ended a
\* lock of at least lockResetThresholdMinutes, also when shorter LOCK/UNLOCK
\* pairs follow it (or from the start of the seated run if that is later);
\* for the history of LockResetScenario it is exactly 5 minutes.
C4_LockResetAnchor ==
    (ret # None /\ LongUnlocks # {}) =>
        ret[1] = Max(0, now - Max(SetMax(LongUnlocks), SeatedRunStart))
                     \div SecondsPerMinute

SetEngine(e) ==
    /\ snoozed_until' = e.snoozed_until
    /\ next_ready_at' = e.next_ready_at
    /\ next_ready_seated' = e.next_ready_seated
    /\ next_ready_standing' = e.next_ready_standing
    /\ lock_started_at' = e.lock_started_at

(***************************************************************************)
(* SpecStreakFault: on_new_measurement over stored histories when sqlite   *)
(* or the session watcher may raise.  rows_read is None when the read of   *)
(* measurements succeeds and Some(k) when it raises after k rows;          *)
(* events_ok tells whether the reads of session_events succeed;            *)
(* is_unlocked is Some(answer) or None when the watcher raises.            *)
(***************************************************************************)
\* The rows the walk sees before the read of measurements raises, if it does.
RowsBeforeFailure(meas, rows_read) ==
    IF rows_read = None THEN RecentRows(meas)
    ELSE SubSeq(RecentRows(meas), 1, Min(rows_read[1], Len(RecentRows(meas))))

\* _last_long_lock_unlock_ts with its except branch
_last_long_lock_unlock_ts_io(events_ok, events, threshold_minutes) ==
    IF events_ok THEN _last_long_lock_unlock_ts(events, threshold_minutes) ELSE None

\* The walk goes on over all the rows although the read raised.
StreakMinutesIoReadingOn(c, rows_read, events_ok, meas, events, now_ts, standing) ==
    StreakMinutes(c, meas, IF events_ok THEN events ELSE <<>>, now_ts, standing)

\* The common body of the two streak functions, with its except branches
StreakMinutesIo(c, rows_read, events_ok, meas, events, now_ts, standing) ==
    LET last_ts == WalkBack(RowsBeforeFailure(meas, rows_read), 1, standing,
                            c.stand_threshold_mm, now_ts)
        lu_ts == _last_long_lock_unlock_ts_io(events_ok, events,
                                              c.lock_reset_threshold_minutes)
        start == IF lu_ts # None /\ lu_ts[1] > last_ts THEN lu_ts[1] ELSE last_ts
    IN  Max(0, now_ts - start) \div SecondsPerMinute

_compute_seated_streak_minutes_io(c, rows_read, events_ok, meas, events, now_ts, latest_height) ==
    IF latest_height >= c.stand_threshold_mm THEN 0
    ELSE StreakMinutesIo(c, rows_read, events_ok, meas, events, now_ts, FALSE)

_compute_standing_streak_minutes_io(c, rows_read, events_ok, meas, events, now_ts, latest_height) ==
    IF latest_height < c.stand_threshold_mm THEN 0
    ELSE StreakMinutesIo(c, rows_read, events_ok, meas, events, now_ts, TRUE)

\* on_new_measurement from the posture reset on, given the two streaks:
\* [e |-> engine, calls |-> titles notified].
decide_reminders(c, e, seated_streak_min, standing_streak_min, height_mm, t) ==
    LET is_standing == height_mm >= c.stand_threshold_mm
        e0 == IF is_standing
              THEN [e EXCEPT !.next_ready_seated = None, !.next_ready_at = None]
              ELSE [e EXCEPT !.next_ready_standing = None, !.next_ready_at = None]
        stand_up == /\ ~is_standing
                    /\ seated_streak_min >= c.remind_after_minutes
                    /\ cadence_due(e0.next_ready_seated, t)
        e1 == IF stand_up
              THEN [e0 EXCEPT !.next_ready_seated =
                        Some(t + c.remind_repeat_minutes * SecondsPerMinute)]
              ELSE e0
        posture_check == /\ is_standing
                         /\ standing_streak_min >= c.standing_check_after_minutes
                         /\ cadence_due(e1.next_ready_standing, t)
        e2 == IF posture_check
              THEN [e1 EXCEPT !.next_ready_standing =
                        Some(t + c.standing_check_repeat_minutes * SecondsPerMinute)]
              ELSE e1
    IN  IF is_snoozed(e0, t) THEN [e |-> e0, calls |-> <<>>]
        ELSE [e |-> e2,
              calls |-> (IF stand_up THEN <<"Stand up">> ELSE <<>>)
                        \o (IF posture_check THEN <<"Posture check">> ELSE <<>>)]

\* on_new_measurement with its except branches:
\* [e |-> engine, calls |-> titles notified, seated |-> seated streak computed].
on_new_measurement_io(c, e, is_unlocked, rows_read, events_ok, meas, events, ts, height_mm, t) ==
    LET unlocked_seen == IF is_unlocked = None THEN TRUE ELSE is_unlocked[1]
        seated_streak_min ==
            _compute_seated_streak_minutes_io(c, rows_read, events_ok, meas, events,
                                              ts, height_mm)
        standing_streak_min ==
            _compute_standing_streak_minutes_io(c, rows_read, events_ok, meas, events,
                                                ts, height_mm)
        r == decide_reminders(c, e, seated_streak_min, standing_streak_min,
                              height_mm, t)
    IN  IF ~unlocked_seen THEN [e |-> e, calls |-> <<>>, seated |-> 0]
        ELSE [e |-> r.e, calls |-> r.calls, seated |-> seated_streak_min]

\* on_new_measurement(now, 800) by a client whose session answers unlocked or
\* raises, with any outcome of the reads
StreakFeedIo ==
    /\ \E rows_read \in {None} \cup {Some(k) : k \in 0..Len(measurements)},
          events_ok \in BOOLEAN, is_unlocked \in {Some(TRUE), None} :
          \E r \in {on_new_measurement_io(StreakCfg, Engine, is_unlocked, rows_read,
                                          events_ok, measurements, session_events,
                                          now, 800, now)} :
             /\ SetEngine(r.e)
             /\ calls' = r.calls
             /\ fed' = Some(800)
             /\ args' = [lock_reset_threshold_minutes |->
                             args.lock_reset_threshold_minutes,
                         rows_read |-> rows_read, events_ok |-> events_ok]
             /\ ret' = Some(r.seated)
    /\ UNCHANGED <<now, dbVars, unlocked, paused, stand_up_at, last_posture>>

NextStreakFault ==
    \/ StreakSaveMeasurement
    \/ StreakSaveSessionEvent
    \/ StreakFeedIo

SpecStreakFault == InitStreak /\ [][NextStreakFault]_vars

\* One of the reads of the last call raised.
ReadFailed == args.rows_read # None \/ ~args.events_ok

MaxRetries == 2
MmPerCm == 10
QuartersPerCm == 4

\* round(): to the nearest integer, halves to the even one
RoundHalfEven(n, d) ==
    LET fl == n \div d
        twice == 2 * (n % d)
    IN  IF twice < d THEN fl
        ELSE IF twice > d THEN fl + 1
        ELSE IF fl % 2 = 0 THEN fl ELSE fl + 1

\* int(round(cm * 10)) of a payload height given in quarters of a centimetre
ToMm(quarters) == RoundHalfEven(quarters * MmPerCm, QuartersPerCm)

FailureKinds == {"http_error", "missing_key", "malformed"}
OkHeights == {316, 317, 319}
Responses ==
    {[kind |-> "ok", table_height |-> q] : q \in OkHeights}
        \cup {[kind |-> k, table_height |-> 0] : k \in FailureKinds}

RECURSIVE SeqsOfLen(_, _)
SeqsOfLen(S, n) ==
    IF n = 0 THEN {<<>>}
    ELSE {Append(q, x) : q \in SeqsOfLen(S, n - 1), x \in S}

\* The body of the try of one attempt: does it reach the return?
AttemptReturns(resp) == resp.kind = "ok"

\* The for loop from attempt number `attempt` (0-based) on:
\* [returned, mm, attempts made, failed |-> last_err is set].
RECURSIVE FetchLoop(_, _, _, _)
FetchLoop(retries, responses, attempt, failed) ==
    IF attempt >= 1 + retries
    THEN [returned |-> FALSE, mm |-> 0, attempts |-> attempt, failed |-> failed]
    ELSE IF AttemptReturns(responses[attempt + 1])
    THEN [returned |-> TRUE, mm |-> ToMm(responses[attempt + 1].table_height),
          attempts |-> attempt + 1, failed |-> failed]
    ELSE IF attempt < retries
    THEN FetchLoop(retries, responses, attempt + 1, TRUE)
    ELSE [returned |-> FALSE, mm |-> 0, attempts |-> attempt + 1, failed |-> TRUE]

\* One attempt more than 1 + retries.
get_height_mm_one_more(retries, optimized, responses) ==
    LET r == FetchLoop(retries + 1, responses, 0, FALSE)
    IN  IF r.returned THEN [raises |-> "", mm |-> r.mm, attempts |-> r.attempts]
        ELSE [raises |-> "RuntimeError", mm |-> 0, attempts |-> r.attempts]

\* get_height_mm: [raises |-> "" or the exception, mm, attempts made].
\* optimized tells whether the interpreter runs with assert statements removed.
get_height_mm(retries, optimized, responses) ==
    LET r == FetchLoop(retries, responses, 0, FALSE)
    IN  IF r.returned THEN [raises |-> "", mm |-> r.mm, attempts |-> r.attempts]
        ELSE IF ~r.failed /\ ~optimized
        THEN [raises |-> "AssertionError", mm |-> 0, attempts |-> r.attempts]
        ELSE [raises |-> "RuntimeError", mm |-> 0, attempts |-> r.attempts]

InitFetch ==
    /\ IdleClock /\ IdleDb /\ IdleEngine /\ IdleApp
    /\ args \in [retries : -1..MaxRetries, optimized : BOOLEAN,
                 responses : SeqsOfLen(Responses, MaxRetries + 2)]
    /\ ret = None

FetchHeight ==
    /\ ret = None
    /\ ret' = Some(get_height_mm(args.retries, args.optimized, args.responses))
    /\ UNCHANGED <<now, dbVars, engineVars, appVars, args>>

NextFetch == FetchHeight

SpecFetch == InitFetch /\ [][NextFetch]_vars

\* The attempts of the last call that are allowed: the first 1 + retries.
AllowedAttempts == 1..(1 + args.retries)

\* The first allowed attempt that succeeds, 0 if none does.
FirstSuccess ==
    IF \E i \in AllowedAttempts : args.responses[i].kind = "ok"
    THEN CHOOSE i \in AllowedAttempts :
            /\ args.responses[i].kind = "ok"
            /\ \A j \in 1..(i - 1) : args.responses[j].kind # "ok"
    ELSE 0

\* The contract of get_height_mm over the attempts allowed.
FetchContract ==
    /\ ret[1].attempts <= 1 + args.retries
    /\ FirstSuccess # 0 =>
           /\ ret[1].raises = ""
           /\ ret[1].attempts = FirstSuccess
           /\ ret[1].mm = ToMm(args.responses[FirstSuccess].table_height)
    /\ FirstSuccess = 0 =>
           /\ ret[1].raises = "RuntimeError"
           /\ ret[1].attempts = 1 + args.retries

Notifications ==
    {[title |-> "Stand up", message |-> "You've been seated for 1 min."],
     [title |-> "Posture check", message |-> "You've been standing for a while."]}

TrayStates == {"none", "ok", "raises"}

\* f"[Notification] {title}: {message}", as the parts of the line
StderrLine(title, message) == <<"[Notification] ", title, ": ", message>>

\* The toast branch is taken.
ToastAttempted(a) ==
    a.config_ok /\ a.is_windows /\ a.use_toast /\ a.toast_available

\* The tray is tried although the toast was shown.
notify_through_all(a) ==
    LET toast_shown == ToastAttempted(a) /\ a.toast_ok
        tray_tried == a.config_ok /\ a.tray # "none"
        tray_shown == tray_tried /\ a.tray = "ok"
        stderr_tried == ~tray_shown
    IN  [raises |-> FALSE,
         tried |-> (IF ToastAttempted(a) THEN <<"toast">> ELSE <<>>)
                   \o (IF tray_tried THEN <<"tray">> ELSE <<>>)
                   \o (IF stderr_tried THEN <<"stderr">> ELSE <<>>),
         delivered |-> (IF toast_shown THEN <<"toast">> ELSE <<>>)
                       \o (IF tray_shown THEN <<"tray">> ELSE <<>>)
                       \o (IF stderr_tried /\ a.stderr_ok THEN <<"stderr">> ELSE <<>>),
         stderr |-> IF stderr_tried /\ a.stderr_ok
                    THEN <<StderrLine(a.title, a.message)>> ELSE <<>>]

\* notify: [raises, channels tried in order, channels that took the
\* notification, lines written to stderr]
notify(a) ==
    LET toast_shown == ToastAttempted(a) /\ a.toast_ok
        tray_tried == a.config_ok /\ ~toast_shown /\ a.tray # "none"
        tray_shown == tray_tried /\ a.tray = "ok"
        stderr_tried == ~toast_shown /\ ~tray_shown
    IN  [raises |-> FALSE,
         tried |-> (IF ToastAttempted(a) THEN <<"toast">> ELSE <<>>)
                   \o (IF tray_tried THEN <<"tray">> ELSE <<>>)
                   \o (IF stderr_tried THEN <<"stderr">> ELSE <<>>),
         delivered |-> (IF toast_shown THEN <<"toast">> ELSE <<>>)
                       \o (IF tray_shown THEN <<"tray">> ELSE <<>>)
                       \o (IF stderr_tried /\ a.stderr_ok THEN <<"stderr">> ELSE <<>>),
         stderr |-> IF stderr_tried /\ a.stderr_ok
                    THEN <<StderrLine(a.title, a.message)>> ELSE <<>>]

InitNotify ==
    /\ IdleClock /\ IdleDb /\ IdleEngine /\ IdleApp
    /\ \E n \in Notifications :
          args \in [title : {n.title}, message : {n.message},
                    config_ok : BOOLEAN, is_windows : BOOLEAN, use_toast : BOOLEAN,
                    toast_available : BOOLEAN, toast_ok : BOOLEAN,
                    tray : TrayStates, stderr_ok : BOOLEAN]
    /\ ret = None

Notify ==
    /\ ret = None
    /\ ret' = Some(notify(args))
    /\ UNCHANGED <<now, dbVars, engineVars, appVars, args>>

NextNotify == Notify

SpecNotify == InitNotify /\ [][NextNotify]_vars

\* The channel the fallback order designates for the last call, failures
\* of a channel passing the notification on to the next one.
DesignatedChannel ==
    IF ToastAttempted(args) /\ args.toast_ok THEN "toast"
    ELSE IF args.tray = "ok" THEN "tray"
    ELSE "stderr"

\* C20 as stated: notify never raises and delivers through exactly one
\* channel, in the order toast (if enabled and available), tray (if
\* assigned), stderr line "[Notification] title: message".
C20_AsStated ==
    ret # None =>
        /\ ~ret[1].raises
        /\ Len(ret[1].delivered) = 1
        /\ args.config_ok => ret[1].delivered = <<DesignatedChannel>>

\* C20 amended: notify never raises and delivers through at most one
\* channel, tried in the order toast (on Windows, if enabled and available),
\* tray (if assigned), stderr; each channel is tried only if the ones before
\* it were not available or failed; the notification is delivered unless the
\* print to stderr is reached and fails; when load_config fails neither toast
\* nor tray is tried; a stderr delivery is the line
\* "[Notification] title: message", and that is what happens with no toast
\* support and no tray.
C20_BestEffortFallback ==
    ret # None =>
        /\ ~ret[1].raises
        /\ Len(ret[1].delivered) <= 1
        /\ ret[1].delivered = <<>> <=>
               (~args.stderr_ok /\ "stderr" \in {ret[1].tried[i] : i \in DOMAIN ret[1].tried})
        /\ args.config_ok /\ (DesignatedChannel # "stderr" \/ args.stderr_ok)
               => ret[1].delivered = <<DesignatedChannel>>
        /\ ~args.config_ok => ret[1].tried = <<"stderr">>
        /\ ret[1].delivered # <<>> =>
               ret[1].tried[Len(ret[1].tried)] = ret[1].delivered[1]
        /\ ret[1].stderr =
               IF ret[1].delivered = <<"stderr">>
               THEN <<StderrLine(args.title, args.message)>> ELSE <<>>
        /\ (~args.toast_available /\ args.tray = "none" /\ args.stderr_ok)
               => ret[1].delivered = <<"stderr">>

\* The toast was enabled and available but showing it failed, the tray
\* failed too, and the notification ended as the stderr line.
C20_Witness ==
    /\ ret # None
    /\ args.title = "Stand up"
    /\ ret[1].tried = <<"toast", "tray", "stderr">>
    /\ ret[1].delivered = <<"stderr">>
    /\ ret[1].stderr = <<<<"[Notification] ", "Stand up", ": ",
                           "You've been seated for 1 min.">>>>

(***************************************************************************)
(* SpecFormula: the two streak functions over stored histories with runs   *)
(* of samples of both postures, one LOCK/UNLOCK pair of any length and a   *)
(* lock reset threshold that may be 0.  Samples may carry a timestamp      *)
(* later than the time the streak is computed at.                          *)
(***************************************************************************)
MaxFormulaMeas == 2
MaxFormulaEvents == 2

FormulaNow == 250
FormulaPts == {0, 50, 130, 190, 300}
FormulaThresholds == {0, 1, 2}

FormulaCfg == [cfg EXCEPT !.lock_reset_threshold_minutes =
                              args.lock_reset_threshold_minutes]

InitFormula ==
    /\ now = FormulaNow
    /\ IdleDb /\ IdleEngine /\ IdleApp
    /\ args \in [lock_reset_threshold_minutes : FormulaThresholds,
                 latest_height : Heights]
    /\ ret = None

\* store.save_measurement of an earlier poll
FormulaSaveMeasurement ==
    /\ Len(measurements) < MaxFormulaMeas
    /\ \E t \in FormulaPts, h \in Heights :
          /\ measurements = <<>> \/ LastTs(measurements) < t
          /\ measurements' = Append(measurements, <<t, h>>)
    /\ ret' = None
    /\ UNCHANGED <<now, args, session_events, daily_aggregates, engineVars, appVars>>

\* store.save_session_event by the session watcher, LOCK and UNLOCK in turn
FormulaSaveSessionEvent ==
    /\ Len(session_events) < MaxFormulaEvents
    /\ \E t \in FormulaPts :
          /\ t <= now
          /\ session_events = <<>> \/ LastTs(session_events) <= t
          /\ session_events' =
                 Append(session_events,
                        <<t, IF Len(session_events) % 2 = 0 THEN "LOCK" ELSE "UNLOCK">>)
    /\ ret' = None
    /\ UNCHANGED <<now, args, measurements, daily_aggregates, engineVars, appVars>>

\* The two streaks as on_new_measurement(now, latest_height) computes them
FormulaCompute ==
    /\ ret = None
    /\ ret' = Some([seated |-> _compute_seated_streak_minutes(
                                   FormulaCfg, measurements, session_events, now,
                                   args.latest_height),
                    standing |-> _compute_standing_streak_minutes(
                                     FormulaCfg, measurements, session_events, now,
                                     args.latest_height)])
    /\ UNCHANGED <<now, args, dbVars, engineVars, appVars>>

NextFormula ==
    \/ FormulaSaveMeasurement
    \/ FormulaSaveSessionEvent
    \/ FormulaCompute

SpecFormula == InitFormula /\ [][NextFormula]_vars

\* s: the timestamp of the oldest sample of the run of samples of the
\* posture that ends the stored history; the time of the computation when
\* the history does not end in that posture.
RunStart(standing) ==
    LET n == Len(measurements)
        Is(i) == (measurements[i][2] >= cfg.stand_threshold_mm) = standing
    IN  IF n = 0 \/ ~Is(n) THEN now
        ELSE measurements[CHOOSE k \in 1..n : /\ \A j \in k..n : Is(j)
                                              /\ k = 1 \/ ~Is(k - 1)][1]

\* u: the time of the last UNLOCK when the latest LOCK at or before that time
\* is at least the threshold older, as a set that is empty when there is none
QualifyingUnlock ==
    LET unlock_ts == {session_events[i][1] : i \in
                         {j \in 1..Len(session_events) : session_events[j][2] = "UNLOCK"}}
        last_unlock == {u \in unlock_ts : \A v \in unlock_ts : v <= u}
        lock_ts(u) == {session_events[i][1] : i \in
                          {j \in 1..Len(session_events) :
                              /\ session_events[j][2] = "LOCK"
                              /\ session_events[j][1] <= u}}
    IN  {u \in last_unlock :
            \E l \in lock_ts(u) :
                /\ \A m \in lock_ts(u) : m <= l
                /\ u - l >= args.lock_reset_threshold_minutes * SecondsPerMinute}

\* floor((ts - max(s, u)) / 60), never negative
StreakByFormula(standing) ==
    LET s == RunStart(standing)
        start == IF \E u \in QualifyingUnlock : u > s
                 THEN CHOOSE u \in QualifyingUnlock : TRUE ELSE s
    IN  IF now - start < 0 THEN 0 ELSE (now - start) \div SecondsPerMinute

C26_ZeroDisablesLockReset ==
    (ret # None /\ args.lock_reset_threshold_minutes = 0) =>
        /\ ret[1].seated =
               _compute_seated_streak_minutes(FormulaCfg, measurements, <<>>, now,
                                              args.latest_height)
        /\ ret[1].standing =
               _compute_standing_streak_minutes(FormulaCfg, measurements, <<>>, now,
                                                args.latest_height)

\* The steps of the clock between two handlers, in seconds
TickSteps == {60}

(***************************************************************************)
(* SpecPause: the engine's snooze and seated cadence timers under locks.   *)
(* args is a history of the timers: for each, the time it was set and the  *)
(* locked time that has passed since (None while the timer is not set),    *)
(* and the time the running lock began.                                    *)
(***************************************************************************)
MaxPauseNow == 300
MaxPauseMeas == 2
MaxPauseLocks == 1

\* How long the session has been locked since each timer was set, after a
\* lock from lock_at to t
LockedSince(hist, lock_at, t) ==
    IF hist = None THEN None
    ELSE Some([hist[1] EXCEPT !.locked = @ + (t - Max(lock_at, hist[1].set_at))])

InitPause ==
    /\ IdleClock /\ IdleDb /\ IdleEngine /\ IdleApp
    /\ args = [snooze |-> None, seated |-> None, lock_at |-> None]
    /\ ret = None

PauseTick ==
    /\ \E d \in TickSteps : now + d <= MaxPauseNow /\ now' = now + d
    /\ fed' = None /\ calls' = <<>>
    /\ UNCHANGED <<dbVars, engineVars, unlocked, paused, stand_up_at, last_posture, fnVars>>

\* SessionWatcher._on_locked and the engine's _on_locked it signals
PauseOnLocked ==
    /\ unlocked
    /\ Len(session_events) < 2 * MaxPauseLocks
    /\ unlocked' = FALSE
    /\ session_events' = Append(session_events, <<now, "LOCK">>)
    /\ SetEngine(_on_locked(Engine, now))
    /\ args' = [args EXCEPT !.lock_at = Some(now)]
    /\ fed' = None /\ calls' = <<>>
    /\ UNCHANGED <<now, measurements, daily_aggregates, paused, stand_up_at, last_posture, ret>>

\* SessionWatcher._on_unlocked and the engine's _on_unlocked it signals
PauseOnUnlocked ==
    /\ ~unlocked
    /\ unlocked' = TRUE
    /\ session_events' = Append(session_events, <<now, "UNLOCK">>)
    /\ SetEngine(_on_unlocked(Engine, now))
    /\ args' = [snooze |-> LockedSince(args.snooze, args.lock_at[1], now),
                seated |-> LockedSince(args.seated, args.lock_at[1], now),
                lock_at |-> None]
    /\ fed' = None /\ calls' = <<>>
    /\ UNCHANGED <<now, measurements, daily_aggregates, paused, stand_up_at, last_posture, ret>>

\* ReminderEngine.snooze, whatever the session state
PauseSnooze ==
    /\ SetEngine(snooze(Engine, cfg.snooze_minutes, now))
    /\ args' = [args EXCEPT !.snooze = Some([set_at |-> now, locked |-> 0])]
    /\ fed' = None /\ calls' = <<>>
    /\ UNCHANGED <<now, dbVars, unlocked, paused, stand_up_at, last_posture, ret>>

\* main.poll_once with a sample of height h: saved, then fed to the engine
PausePoll ==
    /\ unlocked
    /\ measurements = <<>> \/ LastTs(measurements) < now
    /\ Len(measurements) < MaxPauseMeas
    /\ \E h \in Heights :
          /\ measurements' = Append(measurements, <<now, h>>)
          /\ \E r \in {on_new_measurement(Engine, unlocked, measurements',
                                          session_events, now, h, now)} :
                /\ SetEngine(r.e)
                /\ calls' = r.calls
                /\ fed' = Some(h)
                /\ args' = [args EXCEPT !.seated =
                               IF r.e.next_ready_seated = None THEN None
                               ELSE IF r.e.next_ready_seated # next_ready_seated
                               THEN Some([set_at |-> now, locked |-> 0])
                               ELSE @]
    /\ UNCHANGED <<now, session_events, daily_aggregates, unlocked, paused,
                   stand_up_at, last_posture, ret>>

\* ReminderEngine.on_new_measurement with a seated sample that is already
\* stored (the engine's other clients)
PauseFeed ==
    /\ measurements # <<>>
    /\ \E r \in {on_new_measurement(Engine, unlocked, measurements, session_events,
                                    now, 800, now)} :
          /\ SetEngine(r.e)
          /\ calls' = r.calls
          /\ fed' = Some(800)
          /\ args' = [args EXCEPT !.seated =
                         IF r.e.next_ready_seated = None THEN None
                         ELSE IF r.e.next_ready_seated # next_ready_seated
                         THEN Some([set_at |-> now, locked |-> 0])
                         ELSE @]
    /\ UNCHANGED <<now, dbVars, unlocked, paused, stand_up_at, last_posture, ret>>

NextPause ==
    \/ PauseTick
    \/ PauseOnLocked
    \/ PauseOnUnlocked
    \/ PauseSnooze
    \/ PausePoll
    \/ PauseFeed

SpecPause == InitPause /\ [][NextPause]_vars

\* With the session unlocked, the timer expires when `minutes` of unlocked
\* time have passed since it was set.
ExpiresAfterUnlocked(timer, hist, minutes) ==
    (unlocked /\ timer # None /\ hist # None) =>
        timer[1] - hist[1].set_at - hist[1].locked = minutes * SecondsPerMinute

\* C24: cadences are paused, not reset, by a lock: for a snooze or a seated
\* cadence timer set with duration D, the unlocked time between setting it and
\* its expiry is exactly D, under any interleaving of lock and unlock events
\* with snooze calls and samples.
C24_PausedNotReset ==
    /\ ExpiresAfterUnlocked(snoozed_until, args.snooze, cfg.snooze_minutes)
    /\ ExpiresAfterUnlocked(next_ready_seated, args.seated, cfg.remind_repeat_minutes)

(***************************************************************************)
(* SpecRepeat: the stand reminder while the user stays seated.  The        *)
(* session stays unlocked, every sample is seated, the poll timer and the  *)
(* clock keep going (weak fairness), a tick of the timer may be missed,    *)
(* and the user snoozes at most MaxRepeatSnoozes times.  args counts the   *)
(* snoozes; stand_up_at lists the times of the "Stand up" notifications.   *)
(* The weak fairness of RepeatPoll is written out, with PollReady for      *)
(* ENABLED <<RepeatPoll>>_vars: a poll that saves a row always changes     *)
(* measurements, so it is enabled exactly when its guard holds.            *)
(***************************************************************************)
MaxRepeatNow == 360
MaxRepeatSnoozes == 1

InitRepeat ==
    /\ IdleClock /\ IdleDb /\ IdleEngine /\ IdleApp
    /\ args = [snoozes |-> 0]
    /\ ret = None

RepeatTick ==
    /\ \E d \in TickSteps : now + d <= MaxRepeatNow /\ now' = now + d
    /\ fed' = None /\ calls' = <<>>
    /\ UNCHANGED <<dbVars, engineVars, unlocked, paused, stand_up_at, last_posture, fnVars>>

\* main.do_snooze
RepeatSnooze ==
    /\ args.snoozes < MaxRepeatSnoozes
    /\ now + cfg.snooze_minutes * SecondsPerMinute <= MaxRepeatNow
    /\ SetEngine(snooze(Engine, cfg.snooze_minutes, now))
    /\ args' = [snoozes |-> args.snoozes + 1]
    /\ fed' = None /\ calls' = <<>>
    /\ UNCHANGED <<now, dbVars, unlocked, paused, stand_up_at, last_posture, ret>>

\* The guard of poll_once: not paused, unlocked, and the timer has ticked
\* since the last sample.
PollReady ==
    /\ ~paused /\ unlocked
    /\ measurements = <<>> \/ LastTs(measurements) < now

\* main.poll_once with a seated sample: saved, then fed to the engine
RepeatPoll ==
    /\ PollReady
    /\ measurements' = Append(measurements, <<now, 800>>)
    /\ \E r \in {on_new_measurement(Engine, unlocked, measurements', session_events, now, 800, now)} :
          /\ SetEngine(r.e)
          /\ calls' = r.calls
          /\ fed' = Some(800)
          /\ stand_up_at' = IF r.calls = <<"Stand up">>
                            THEN Append(stand_up_at, now) ELSE stand_up_at
    /\ UNCHANGED <<now, session_events, daily_aggregates, unlocked, paused, last_posture, fnVars>>

NextRepeat == RepeatTick \/ RepeatSnooze \/ RepeatPoll

SpecRepeat ==
    /\ InitRepeat
    /\ [][NextRepeat]_vars
    /\ WF_vars(RepeatTick)
    /\ ([]<>(~PollReady) \/ []<><<RepeatPoll>>_vars)

\* The times the clock of SpecRepeat takes
RepeatTimes == {t \in 0..MaxRepeatNow : t % SecondsPerMinute = 0}

\* "Stand up" was notified by the last handler, at or after time t.
StoodUpSince(t) == calls = <<"Stand up">> /\ now >= t

MaxDeliverMeas == 5
DeliverInstants == {0, 60, 61, 62, 122, 180}

\* The raise is not caught where notify is called: it leaves for the handler
\* at the end of on_new_measurement, past the assignment of the timer.
RemindUnshielded(due, notify_ok, timer, next) ==
    IF due /\ notify_ok THEN Some(next) ELSE timer

\* One reminder block: when due, notify is tried inside its own try/except
\* and the cadence timer is set whether it returned or raised.
Remind(due, notify_ok, timer, next) == IF due THEN Some(next) ELSE timer

\* The two reminder blocks: [e |-> engine, calls |-> titles tried,
\* failed |-> titles whose notify raised].
fire_reminders_delivering(e, meas, events, ts, height_mm, t, notify_ok) ==
    LET is_standing == height_mm >= cfg.stand_threshold_mm
        seated_streak_min == _compute_seated_streak_minutes(cfg, meas, events, ts, height_mm)
        standing_streak_min == _compute_standing_streak_minutes(cfg, meas, events, ts, height_mm)
        stand_up == /\ ~is_standing
                    /\ seated_streak_min >= cfg.remind_after_minutes
                    /\ cadence_due(e.next_ready_seated, t)
        e1 == [e EXCEPT !.next_ready_seated =
                  Remind(stand_up, notify_ok, @,
                         t + cfg.remind_repeat_minutes * SecondsPerMinute)]
        posture_check == /\ is_standing
                         /\ standing_streak_min >= cfg.standing_check_after_minutes
                         /\ cadence_due(e1.next_ready_standing, t)
        e2 == [e1 EXCEPT !.next_ready_standing =
                  Remind(posture_check, notify_ok, @,
                         t + cfg.standing_check_repeat_minutes * SecondsPerMinute)]
        tried == (IF stand_up THEN <<"Stand up">> ELSE <<>>)
                 \o (IF posture_check THEN <<"Posture check">> ELSE <<>>)
    IN  [e |-> e2, calls |-> tried, failed |-> IF notify_ok THEN <<>> ELSE tried]

on_new_measurement_delivering(e, is_unlocked, meas, events, ts, height_mm, t, notify_ok) ==
    LET is_standing == height_mm >= cfg.stand_threshold_mm
        e1 == IF is_standing
              THEN [e EXCEPT !.next_ready_seated = None, !.next_ready_at = None]
              ELSE [e EXCEPT !.next_ready_standing = None, !.next_ready_at = None]
    IN  IF ~is_unlocked THEN [e |-> e, calls |-> <<>>, failed |-> <<>>]
        ELSE IF is_snoozed(e1, t) THEN [e |-> e1, calls |-> <<>>, failed |-> <<>>]
        ELSE fire_reminders_delivering(e1, meas, events, ts, height_mm, t, notify_ok)

\* The title of the reminder of a posture
TitleOf(is_standing) == IF is_standing THEN "Posture check" ELSE "Stand up"

\* The cadence timer of a title
TimerOf(e, title) ==
    IF title = "Stand up" THEN e.next_ready_seated ELSE e.next_ready_standing

\* The last failed delivery not yet tried again, after a sample whose
\* handling returned r.
FailedAfter(failed, r, is_standing) ==
    IF r.failed # <<>>
    THEN Some([title |-> r.failed[1],
               not_before |-> TimerOf(r.e, r.failed[1]),
               posture_kept |-> TRUE])
    ELSE IF failed = None THEN None
    ELSE IF r.calls = <<failed[1].title>> THEN None
    ELSE Some([failed[1] EXCEPT !.posture_kept = @ /\ failed[1].title = TitleOf(is_standing)])

InitDeliver ==
    /\ IdleClock /\ IdleDb /\ IdleEngine /\ IdleApp
    /\ args = [notify_ok |-> TRUE, failures |-> 0, failed |-> None, before |-> None]
    /\ ret = None

DeliverTick ==
    /\ \E t \in DeliverInstants :
          /\ t > now
          /\ \A u \in DeliverInstants : u > now => t <= u
          /\ now' = t
    /\ fed' = None /\ calls' = <<>>
    /\ UNCHANGED <<dbVars, engineVars, unlocked, paused, stand_up_at, last_posture, fnVars>>

\* main.poll_once: the sample is saved and fed to the engine, whose notify
\* returns or raises.
DeliverPoll ==
    /\ PollReady
    /\ Len(measurements) < MaxDeliverMeas
    /\ \E h \in Heights, ok \in BOOLEAN :
          /\ measurements' = Append(measurements, <<now, h>>)
          /\ \E r \in {on_new_measurement_delivering(Engine, unlocked, measurements', session_events, now, h, now, ok)} :
                /\ SetEngine(r.e)
                /\ calls' = r.calls
                /\ fed' = Some(h)
                /\ ret' = Some(r.failed)
                /\ stand_up_at' = IF r.calls = <<"Stand up">>
                                  THEN Append(stand_up_at, now) ELSE stand_up_at
                /\ args' = [notify_ok |-> ok,
                            failures |-> args.failures + Len(r.failed),
                            before |-> args.failed,
                            failed |-> FailedAfter(args.failed, r, h >= cfg.stand_threshold_mm)]
    /\ UNCHANGED <<now, session_events, daily_aggregates, unlocked, paused, last_posture>>

NextDeliver == DeliverTick \/ DeliverPoll

SpecDeliver == InitDeliver /\ [][NextDeliver]_vars

\* The reminder whose delivery failed before the last poll was tried again
\* by it.
TriedAgain == args.before # None /\ calls = <<args.before[1].title>>

\* C28 as stated: a failed notification delivery is not retried, so the next
\* attempt happens no earlier than the cadence deadline the failure set.
C28_AsStated ==
    TriedAgain =>
        /\ args.before[1].not_before # None
        /\ now >= args.before[1].not_before[1]

\* C28: a failed notification delivery is swallowed and not retried: when
\* notify raises during a due "Stand up" or "Posture check", the engine ends
\* in the state a successful delivery leaves, with the cadence timer of the
\* reminder at now + its repeat interval, and while the posture lasts the
\* reminder is not tried again before that deadline.
C28_FailedDeliverySwallowed ==
    /\ [](TriedAgain /\ args.before[1].posture_kept => C28_AsStated)
    /\ [][DeliverPoll =>
            /\ (ret' = Some(<<"Stand up">>) =>
                   next_ready_seated' =
                       Some(now + cfg.remind_repeat_minutes * SecondsPerMinute))
            /\ (ret' = Some(<<"Posture check">>) =>
                   next_ready_standing' =
                       Some(now + cfg.standing_check_repeat_minutes * SecondsPerMinute))
            /\ Engine' = on_new_measurement_delivering(Engine, unlocked, measurements',
                             session_events, now, fed'[1], now, TRUE).e]_vars

\* Two "Stand up" deliveries raised, a repeat interval apart, with a seated
\* sample in between that tried nothing.
C28_Witness ==
    /\ args.failures = 2
    /\ ret = Some(<<"Stand up">>)
    /\ TriedAgain /\ args.before[1].posture_kept
    /\ Len(stand_up_at) = 2
    /\ stand_up_at[2] = stand_up_at[1] + cfg.remind_repeat_minutes * SecondsPerMinute
    /\ Len(measurements) = 4
    /\ next_ready_seated = Some(now + cfg.remind_repeat_minutes * SecondsPerMinute)

(***************************************************************************)
(* SpecSettings: main.py, the tray's Settings action on a running engine.  *)
(* args is reminder_engine.cfg, the ReminderConfig built at construction;  *)
(* ret is app_state: the configuration last loaded, the snooze default     *)
(* taken from it, and the handler that ran last.  The dialog may write any *)
(* value of SettingsValues for a field; the engine is found with any of    *)
(* its timers running.                                                     *)
(***************************************************************************)
SettingsFields == DOMAIN cfg

\* The values the dialog can leave in the file for a field: the one the
\* application started with and another one.
SettingsValues(f) == {cfg[f], cfg[f] + 1}

SettingsConfigs ==
    [stand_threshold_mm : SettingsValues("stand_threshold_mm"),
     remind_after_minutes : SettingsValues("remind_after_minutes"),
     remind_repeat_minutes : SettingsValues("remind_repeat_minutes"),
     snooze_minutes : SettingsValues("snooze_minutes"),
     standing_check_after_minutes : SettingsValues("standing_check_after_minutes"),
     standing_check_repeat_minutes : SettingsValues("standing_check_repeat_minutes"),
     lock_reset_threshold_minutes : SettingsValues("lock_reset_threshold_minutes")]

SettingsTimes == {0, 60}

\* The timers of an engine that has been running: a snooze, and the cadence
\* timer of at most one posture.
SettingsEngines ==
    {e \in [snoozed_until : {None, Some(60)}, next_ready_at : {None},
            next_ready_seated : {None, Some(120)},
            next_ready_standing : {None, Some(120)},
            lock_started_at : {None}] :
        e.next_ready_seated = None \/ e.next_ready_standing = None}

\* The six assignments to rcfg in open_settings
open_settings(rcfg, new_cfg) ==
    [rcfg EXCEPT
        !.stand_threshold_mm = new_cfg.stand_threshold_mm,
        !.remind_after_minutes = new_cfg.remind_after_minutes,
        !.remind_repeat_minutes = new_cfg.remind_repeat_minutes,
        !.standing_check_after_minutes = new_cfg.standing_check_after_minutes,
        !.standing_check_repeat_minutes = new_cfg.standing_check_repeat_minutes,
        !.snooze_minutes = new_cfg.snooze_minutes]

InitSettings ==
    /\ now = 0
    /\ IdleDb /\ IdleApp
    /\ \E e \in SettingsEngines :
          /\ snoozed_until = e.snoozed_until
          /\ next_ready_at = e.next_ready_at
          /\ next_ready_seated = e.next_ready_seated
          /\ next_ready_standing = e.next_ready_standing
          /\ lock_started_at = e.lock_started_at
          /\ ret = [cfg |-> cfg, snooze_minutes |-> cfg.snooze_minutes,
                    last |-> "none", before |-> e]
    /\ args = cfg

\* Time passes.
SettingsTick ==
    /\ \E t \in SettingsTimes : t > now /\ now' = t
    /\ ret' = [ret EXCEPT !.last = "tick", !.before = Engine]
    /\ UNCHANGED <<dbVars, engineVars, appVars, args>>

\* do_snooze: reminder_engine.snooze(app_state["snooze_minutes"])
SettingsSnooze ==
    /\ SetEngine(snooze(Engine, ret.snooze_minutes, now))
    /\ ret' = [ret EXCEPT !.last = "do_snooze", !.before = Engine]
    /\ UNCHANGED <<now, dbVars, appVars, args>>

\* open_settings with the dialog accepted: the file the dialog wrote is
\* loaded, the snooze default and the engine's configuration are updated.
SettingsAccepted ==
    /\ \E new_cfg \in SettingsConfigs :
          /\ ret' = [cfg |-> new_cfg, snooze_minutes |-> new_cfg.snooze_minutes,
                     last |-> "accepted", before |-> Engine]
          /\ args' = open_settings(args, new_cfg)
    /\ UNCHANGED <<now, dbVars, engineVars, appVars>>

\* open_settings with the dialog cancelled
SettingsRejected ==
    /\ ret' = [ret EXCEPT !.last = "rejected", !.before = Engine]
    /\ UNCHANGED <<now, dbVars, engineVars, appVars, args>>

NextSettings ==
    \/ SettingsTick
    \/ SettingsSnooze
    \/ SettingsAccepted
    \/ SettingsRejected

SpecSettings == InitSettings /\ [][NextSettings]_vars

\* C33: after a settings change is accepted, every threshold held by the
\* running engine (stand_threshold_mm, remind_after_minutes,
\* remind_repeat_minutes, standing_check_after_minutes,
\* standing_check_repeat_minutes, snooze_minutes,
\* lock_reset_threshold_minutes) equals the reloaded configuration value,
\* while snoozed_until and the cadence timers are as they were.
C33_AsStated ==
    ret.last = "accepted" =>
        /\ \A f \in SettingsFields : args[f] = ret.cfg[f]
        /\ Engine = ret.before

(***************************************************************************)
(* Spec: the running application.  The clock, the session watcher          *)
(* (services/session_watcher.py), the tray actions and the poll timer      *)
(* (main.py) drive the store and the reminder engine.                      *)
(***************************************************************************)
MaxNow == 180
MaxMeas == 2
MaxEvents == 2


\* A handler that does not reach the engine's on_new_measurement.
NotFed == fed' = None /\ calls' = <<>>

\* A handler other than poll_once: ret holds the outcome of poll_once when it
\* was the last handler to run ("saved" or "failed").
NotPolled == ret' = None /\ UNCHANGED args

Init ==
    /\ IdleClock /\ IdleDb /\ IdleEngine /\ IdleApp /\ IdleFn

\* Time passes between two handlers.
Tick ==
    /\ \E d \in TickSteps : now + d <= MaxNow /\ now' = now + d
    /\ NotFed
    /\ UNCHANGED <<dbVars, engineVars, unlocked, paused, stand_up_at, last_posture>>
    /\ NotPolled

\* SessionWatcher._on_locked, which emits session_locked to the engine
WatcherOnLocked ==
    /\ unlocked
    /\ Len(session_events) + 2 <= MaxEvents
    /\ unlocked' = FALSE
    /\ session_events' = Append(session_events, <<now, "LOCK">>)
    /\ SetEngine(_on_locked(Engine, now))
    /\ NotFed
    /\ UNCHANGED <<now, measurements, daily_aggregates, paused, stand_up_at, last_posture>>
    /\ NotPolled

\* SessionWatcher._on_unlocked, which emits session_unlocked to the engine
WatcherOnUnlocked ==
    /\ ~unlocked
    /\ unlocked' = TRUE
    /\ session_events' = Append(session_events, <<now, "UNLOCK">>)
    /\ SetEngine(_on_unlocked(Engine, now))
    /\ NotFed
    /\ UNCHANGED <<now, measurements, daily_aggregates, paused, stand_up_at, last_posture>>
    /\ NotPolled

\* main.do_snooze
DoSnooze ==
    /\ SetEngine(snooze(Engine, cfg.snooze_minutes, now))
    /\ NotFed
    /\ UNCHANGED <<now, dbVars, unlocked, paused, stand_up_at, last_posture>>
    /\ NotPolled

\* main.toggle_pause
TogglePause ==
    /\ paused' = ~paused
    /\ NotFed
    /\ UNCHANGED <<now, dbVars, engineVars, unlocked, stand_up_at, last_posture>>
    /\ NotPolled

\* The engine is handed the sample <<now, h>>; meas is the table it reads.
FeedEngine(meas, h) ==
    \E r \in {on_new_measurement(Engine, unlocked, meas, session_events, now, h, now)} :
        /\ SetEngine(r.e)
        /\ calls' = r.calls
        /\ fed' = Some(h)
        /\ stand_up_at' =
               IF r.calls # <<>> /\ r.calls[1] = "Stand up"
               THEN Append(stand_up_at, now)
               ELSE IF unlocked /\ h >= cfg.stand_threshold_mm THEN <<>>
               ELSE stand_up_at
        /\ last_posture' =
               IF unlocked
               THEN Some([standing |-> h >= cfg.stand_threshold_mm,
                          cleared |-> IF h >= cfg.stand_threshold_mm
                                      THEN next_ready_seated # None
                                      ELSE next_ready_standing # None])
               ELSE last_posture

\* main.poll_once on a timer tick, with the height the desk reports: skipped
\* while paused or locked; a failed fetch or insert ends the tick; else the
\* sample is saved and the engine fed.
PollSampleUnsaved(h) ==
    /\ measurements' = measurements
    /\ FeedEngine(measurements, h)

PollSample(h) ==
    /\ measurements' = Append(measurements, <<now, h>>)
    /\ FeedEngine(measurements', h)

PollOnce ==
    /\ ~paused /\ unlocked
    /\ measurements = <<>> \/ LastTs(measurements) < now
    /\ Len(measurements) < MaxMeas
    /\ \/ /\ NotFed
          /\ ret' = Some("failed")
          /\ UNCHANGED <<measurements, engineVars, stand_up_at, last_posture>>
       \/ /\ \E h \in Heights : PollSample(h)
          /\ ret' = Some("saved")
    /\ UNCHANGED <<now, session_events, daily_aggregates, unlocked, paused, args>>

\* ReminderEngine.on_new_measurement called by another client of the engine
\* (the tests), whatever the session state.
OnNewMeasurement ==
    /\ \E h \in Heights : FeedEngine(measurements, h)
    /\ UNCHANGED <<now, dbVars, unlocked, paused>>
    /\ NotPolled

\* ReminderEngine._on_unlocked called again while the session is unlocked
\* (the signal delivered once more, or another client of the engine)
EngineOnUnlocked ==
    /\ unlocked
    /\ SetEngine(_on_unlocked(Engine, now))
    /\ NotFed
    /\ UNCHANGED <<now, dbVars, unlocked, paused, stand_up_at, last_posture>>
    /\ NotPolled

Next ==
    \/ Tick
    \/ WatcherOnLocked
    \/ WatcherOnUnlocked
    \/ EngineOnUnlocked
    \/ DoSnooze
    \/ TogglePause
    \/ PollOnce
    \/ OnNewMeasurement

Spec == Init /\ [][Next]_vars

\* A step in which on_new_measurement runs with height h.
FedStep(h) == PollSample(h) \/ FeedEngine(measurements, h)

WouldRemindSeated(meas) ==
    /\ _compute_seated_streak_minutes(cfg, meas, session_events, now, 800)
           >= cfg.remind_after_minutes
    /\ snoozed_until = None \/ now >= snoozed_until[1]

\* C1: while the session watcher reports locked, on_new_measurement fires no
\* notification and leaves snoozedUntil, nextSeatedReminderAt,
\* nextStandingReminderAt and lockStartedAt unchanged, whatever the height,
\* the streak and the timers.
C1_LockedNoEvaluation ==
    [][\A h \in Heights :
          (FedStep(h) /\ ~unlocked) =>
              /\ calls' = <<>>
              /\ UNCHANGED <<snoozed_until, next_ready_seated,
                             next_ready_standing, lock_started_at>>]_vars

\* A seated sample reached the engine while locked, with a streak that is
\* long enough, no snooze and no cadence timer: nothing was notified.
C1_Witness ==
    /\ ~unlocked
    /\ fed = Some(800)
    /\ WouldRemindSeated(measurements)
    /\ next_ready_seated = None
    /\ calls = <<>>

\* C2: with the session unlocked, not snoozed and a seated streak of at least
\* remindAfterMinutes, a seated sample fires exactly one "Stand up" and sets
\* nextSeatedReminderAt = now + remindRepeatMinutes when the timer is unset or
\* due; a seated sample with now < nextSeatedReminderAt fires none; so two
\* "Stand up" notifications with no standing sample between them are at least
\* remindRepeatMinutes apart.
C2_SeatedCadence ==
    [][\A h \in Heights :
          (FedStep(h) /\ h < cfg.stand_threshold_mm) =>
              /\ (/\ unlocked
                  /\ snoozed_until = None \/ now >= snoozed_until[1]
                  /\ _compute_seated_streak_minutes(cfg, measurements', session_events,
                                                    now, h)
                         >= cfg.remind_after_minutes
                  /\ next_ready_seated = None \/ now >= next_ready_seated[1])
                 => /\ calls' = <<"Stand up">>
                    /\ next_ready_seated' =
                           Some(now + cfg.remind_repeat_minutes * SecondsPerMinute)
              /\ (next_ready_seated # None /\ now < next_ready_seated[1])
                 => calls' = <<>>
              /\ (calls' # <<>> /\ stand_up_at # <<>>)
                 => now >= stand_up_at[Len(stand_up_at)]
                               + cfg.remind_repeat_minutes * SecondsPerMinute]_vars

\* A second "Stand up" fired, a full repeat interval after the first one.
C2_Witness ==
    /\ calls = <<"Stand up">>
    /\ Len(stand_up_at) = 2
    /\ stand_up_at[2] = now
    /\ stand_up_at[2] = stand_up_at[1] + cfg.remind_repeat_minutes * SecondsPerMinute
    /\ next_ready_seated = Some(now + cfg.remind_repeat_minutes * SecondsPerMinute)

\* C3: after snooze(m), every on_new_measurement call made while
\* now < snoozedUntil notifies nothing, whatever the posture, the streak and
\* the cadence timers.
C3_SnoozeSuppresses ==
    [][\A h \in Heights :
          (FedStep(h) /\ snoozed_until # None /\ now < snoozed_until[1])
              => calls' = <<>>]_vars

\* A seated sample reached the unlocked engine during a snooze, with a streak
\* that is long enough and no cadence timer: nothing was notified.
C3_Witness ==
    /\ unlocked
    /\ fed = Some(800)
    /\ snoozed_until # None /\ now < snoozed_until[1]
    /\ _compute_seated_streak_minutes(cfg, measurements, session_events, now, 800)
           >= cfg.remind_after_minutes
    /\ next_ready_seated = None
    /\ calls = <<>>

\* The streak of the posture of height h, as the engine computes it when it
\* is handed <<now, h>> and reads the table meas.
StreakOfPosture(meas, h) ==
    IF h >= cfg.stand_threshold_mm
    THEN _compute_standing_streak_minutes(cfg, meas, session_events, now, h)
    ELSE _compute_seated_streak_minutes(cfg, meas, session_events, now, h)

\* C14: the seated and the standing cadence timer are never both set; and
\* when the engine evaluates a sample whose posture differs from that of the
\* sample it evaluated before, the timer of the new posture is unset, the
\* timer of the old posture is cleared, and whether a reminder fires depends
\* on the snooze and the streak alone, never on a timer of an earlier episode.
C14_OneCadenceLive ==
    /\ [](next_ready_seated = None \/ next_ready_standing = None)
    /\ [][\A h \in Heights :
             (/\ FedStep(h) /\ unlocked
              /\ last_posture # None
              /\ last_posture[1].standing # (h >= cfg.stand_threshold_mm)) =>
                 /\ IF h >= cfg.stand_threshold_mm
                    THEN next_ready_standing = None /\ next_ready_seated' = None
                    ELSE next_ready_seated = None /\ next_ready_standing' = None
                 /\ calls' # <<>> <=>
                       /\ snoozed_until = None \/ now >= snoozed_until[1]
                       /\ StreakOfPosture(measurements', h) >=
                              (IF h >= cfg.stand_threshold_mm
                               THEN cfg.standing_check_after_minutes
                               ELSE cfg.remind_after_minutes)]_vars

\* A standing sample was evaluated right after a seated one, while the seated
\* cadence timer was set: the timer was cleared and neither is set now.
C14_Witness ==
    /\ unlocked
    /\ fed = Some(950)
    /\ last_posture = Some([standing |-> TRUE, cleared |-> TRUE])
    /\ next_ready_seated = None
    /\ next_ready_standing = None

\* before, if set, became before + delta; if unset, stayed unset.
MovedBy(before, after, delta) ==
    IF before = None THEN after = None ELSE after = Some(before[1] + delta)

\* C15: onUnlocked with a lock in progress since L adds now - L to each of
\* snoozedUntil, nextSeatedReminderAt and nextStandingReminderAt that is set,
\* leaves the unset ones unset and clears lockStartedAt; with no lock in
\* progress it changes nothing, so a repeated onUnlocked shifts only once.
\* Neither onLocked nor onUnlocked notifies.
C15_UnlockShiftsOnce ==
    [][/\ (WatcherOnUnlocked \/ EngineOnUnlocked) =>
             /\ calls' = <<>>
             /\ lock_started_at # None =>
                    /\ MovedBy(snoozed_until, snoozed_until', now - lock_started_at[1])
                    /\ MovedBy(next_ready_seated, next_ready_seated',
                               now - lock_started_at[1])
                    /\ MovedBy(next_ready_standing, next_ready_standing',
                               now - lock_started_at[1])
                    /\ lock_started_at' = None
             /\ lock_started_at = None => UNCHANGED engineVars
       /\ WatcherOnLocked => calls' = <<>>]_vars

\* After a "Stand up" the session was locked for a while and unlocked: the
\* seated timer lies later than the repeat interval after the reminder, and
\* no lock is in progress, so another onUnlocked would find nothing to shift.
C15_Witness ==
    /\ unlocked
    /\ lock_started_at = None
    /\ stand_up_at # <<>>
    /\ next_ready_seated # None
    /\ next_ready_seated[1] > stand_up_at[Len(stand_up_at)]
                                  + cfg.remind_repeat_minutes * SecondsPerMinute
    /\ session_events # <<>>
    /\ session_events[Len(session_events)] = <<now, "UNLOCK">>

\* C18: a poll tick whose fetch or insert fails is "no sample this tick":
\* poll_once returns, the engine is not fed, no reminder is raised, the
\* reminder state, the pause flag and the stored samples are unchanged, and
\* poll_once can run again; the engine is fed a height only in a tick that
\* appended that height, stamped with the time of the tick, to the
\* measurements.
C18_FailedPollIsNoSample ==
    /\ [](ret = Some("failed") => (fed = None /\ calls = <<>> /\ ENABLED PollOnce))
    /\ [][PollOnce =>
            /\ ret' = Some("failed") =>
                   /\ fed' = None /\ calls' = <<>>
                   /\ UNCHANGED <<measurements, engineVars, paused, unlocked>>
            /\ ret' = Some("saved") =>
                   /\ fed' # None
                   /\ measurements' = Append(measurements, <<now, fed'[1]>>)]_vars

\* A poll failed after "Stand up" had armed the seated cadence: the timer is
\* still set, nothing was fed and both samples that armed it are still the
\* whole history.
C18_Witness ==
    /\ ret = Some("failed")
    /\ fed = None
    /\ next_ready_seated # None
    /\ measurements # <<>>

\* The stored history ends with a run of samples of the posture.
EndsInPosture(meas, standing) ==
    meas # <<>> /\ ((meas[Len(meas)][2] >= cfg.stand_threshold_mm) = standing)

\* The timestamp of the first sample of the run of the posture that ends the
\* stored history: the first sample of that posture after the other one.
ResumedAt(meas, standing) ==
    LET n == Len(meas)
        Is(i) == (meas[i][2] >= cfg.stand_threshold_mm) = standing
        k == CHOOSE k \in 1..n : /\ \A j \in k..n : Is(j)
                                 /\ k = 1 \/ ~Is(k - 1)
    IN  meas[k][1]

\* C23: a freshly resumed posture waits a full threshold before its first
\* reminder: when "Stand up" is notified the stored history ends with seated
\* samples and the first of them is at least remindAfterMinutes old; when
\* "Posture check" is notified it ends with standing samples and the first of
\* them is at least standingCheckAfterMinutes old.
C23_ResumedPostureWaits ==
    /\ (\E i \in 1..Len(calls) : calls[i] = "Stand up") =>
           /\ EndsInPosture(measurements, FALSE)
           /\ now >= ResumedAt(measurements, FALSE)
                         + cfg.remind_after_minutes * SecondsPerMinute
    /\ (\E i \in 1..Len(calls) : calls[i] = "Posture check") =>
           /\ EndsInPosture(measurements, TRUE)
           /\ now >= ResumedAt(measurements, TRUE)
                         + cfg.standing_check_after_minutes * SecondsPerMinute

\* A standing sample, then the first seated sample, and "Stand up" notified
\* exactly remindAfterMinutes after that one.
C23_Witness ==
    /\ calls = <<"Stand up">>
    /\ Len(measurements) = 2
    /\ measurements[1][2] >= cfg.stand_threshold_mm
    /\ measurements[2][2] < cfg.stand_threshold_mm
    /\ now = measurements[2][1] + cfg.remind_after_minutes * SecondsPerMinute

(***************************************************************************)
(* SpecSession: the session watcher composed with the engine and the poll  *)
(* timer.  Windows delivers WTS_SESSION_LOCK and WTS_SESSION_UNLOCK in any *)
(* order, repeated or not; a store write of the watcher may fail; the poll *)
(* timer fires whether or not the session is locked or polling paused.     *)
(* args holds the signals emitted so far, whether a write of the watcher   *)
(* has failed, and the engine as the last session change found it; ret is  *)
(* the outcome of poll_once when it ran last.                              *)
(***************************************************************************)
MaxSessionNow == 240
MaxSessionMeas == 2
MaxSessionSignals == 2

\* A seated height and the height exactly at the threshold
SessionHeights == {800, stand_threshold_mm}

SessionMessages == {"LOCK", "UNLOCK"}

SignalOf(msg) == IF msg = "LOCK" THEN "session_locked" ELSE "session_unlocked"

\* Every message is taken for a change.
changes_session_always(is_unlocked, msg) == TRUE

\* SessionWatcher._on_locked goes on when _unlocked, _on_unlocked when not.
changes_session(is_unlocked, msg) == (msg = "LOCK") = is_unlocked

\* The tick is never skipped.
poll_skipped_never(is_paused, is_unlocked) == FALSE

\* poll_once: state["paused"] or not watcher.is_unlocked()
poll_skipped(is_paused, is_unlocked) == is_paused \/ ~is_unlocked

InitSession ==
    /\ IdleClock /\ IdleDb /\ IdleEngine /\ IdleApp
    /\ args = [emitted |-> <<>>, failed |-> FALSE, before |-> None]
    /\ ret = None

\* Time passes between two handlers.
SessionTick ==
    /\ \E d \in TickSteps : now + d <= MaxSessionNow /\ now' = now + d
    /\ NotFed
    /\ UNCHANGED <<dbVars, engineVars, unlocked, paused, stand_up_at, last_posture>>
    /\ NotPolled

\* _NativeFilter.nativeEventFilter with a WM_WTSSESSION_CHANGE message: the
\* watcher's handler returns at once when the message changes nothing; else
\* it flips _unlocked, saves the event, which may fail, and emits its signal
\* to the engine's slot.
SessionMessage(msg) ==
    /\ IF changes_session(unlocked, msg)
       THEN /\ Len(args.emitted) < MaxSessionSignals
            /\ unlocked' = (msg = "UNLOCK")
            /\ \E saved \in BOOLEAN :
                  /\ session_events' =
                         IF saved THEN Append(session_events, <<now, msg>>)
                         ELSE session_events
                  /\ args' = [emitted |-> Append(args.emitted, SignalOf(msg)),
                              failed |-> args.failed \/ ~saved,
                              before |-> Some(Engine)]
            /\ SetEngine(IF msg = "LOCK" THEN _on_locked(Engine, now)
                         ELSE _on_unlocked(Engine, now))
       ELSE UNCHANGED <<unlocked, session_events, args, engineVars>>
    /\ NotFed
    /\ ret' = None
    /\ UNCHANGED <<now, measurements, daily_aggregates, paused, stand_up_at,
                   last_posture>>

SessionLockMessage == SessionMessage("LOCK")

SessionUnlockMessage == SessionMessage("UNLOCK")

\* main.poll_once on a timer tick
SessionPoll ==
    /\ IF poll_skipped(paused, unlocked)
       THEN /\ NotFed
            /\ ret' = Some("skipped")
            /\ UNCHANGED <<measurements, engineVars, stand_up_at, last_posture>>
       ELSE /\ measurements = <<>> \/ LastTs(measurements) < now
            /\ Len(measurements) < MaxSessionMeas
            /\ \/ /\ NotFed
                  /\ ret' = Some("failed")
                  /\ UNCHANGED <<measurements, engineVars, stand_up_at,
                                 last_posture>>
               \/ /\ \E h \in SessionHeights : PollSample(h)
                  /\ ret' = Some("saved")
    /\ UNCHANGED <<now, session_events, daily_aggregates, unlocked, paused, args>>

NextSession ==
    \/ SessionTick
    \/ SessionLockMessage
    \/ SessionUnlockMessage
    \/ DoSnooze
    \/ TogglePause
    \/ SessionPoll

SpecSession == InitSession /\ [][NextSession]_vars

\* The signals or kinds of q alternate, starting with first.
Alternates(q, first, second) ==
    \A i \in 1..Len(q) : q[i] = IF i % 2 = 1 THEN first ELSE second

EventKinds == [i \in 1..Len(session_events) |-> session_events[i][2]]

\* C34, as stated: for any sequence of OS lock/unlock messages the emitted
\* signals and the persisted events strictly alternate, starting with LOCK.
C34_AsStated ==
    /\ Alternates(args.emitted, "session_locked", "session_unlocked")
    /\ Alternates(EventKinds, "LOCK", "UNLOCK")

\* C34: the watcher de-duplicates session changes: a signal is emitted, and
\* an event persisted, only in a step that changes the watcher's state, LOCK
\* on unlocked-to-locked and UNLOCK on locked-to-unlocked; the emitted
\* signals strictly alternate, starting with session_locked; each persisted
\* event is that of an emitted signal whose write succeeded, so the persisted
\* events strictly alternate, starting with LOCK, when no write has failed.
C34_WatcherDeduplicates ==
    /\ [](Alternates(args.emitted, "session_locked", "session_unlocked"))
    /\ [](Len(session_events) <= Len(args.emitted))
    /\ [](~args.failed =>
             /\ Len(session_events) = Len(args.emitted)
             /\ Alternates(EventKinds, "LOCK", "UNLOCK"))
    /\ [][(args'.emitted # args.emitted \/ session_events' # session_events) =>
              /\ unlocked' # unlocked
              /\ args'.emitted =
                     Append(args.emitted,
                            SignalOf(IF unlocked THEN "LOCK" ELSE "UNLOCK"))
              /\ \/ session_events' = session_events
                 \/ session_events' =
                        Append(session_events,
                               <<now, IF unlocked THEN "LOCK" ELSE "UNLOCK">>)]_vars

\* After a lock whose write failed and the unlock that followed it: both
\* signals were emitted and the log starts with the UNLOCK.
C34_Witness ==
    /\ args.emitted = <<"session_locked", "session_unlocked">>
    /\ args.failed
    /\ EventKinds = <<"UNLOCK">>

\* C35: in the composed watcher + engine system, between event handlers the
\* engine's lock_started_at is set if and only if the watcher reports locked,
\* for every sequence of OS lock/unlock messages, polls and snooze calls.
C35_LockStartedIffLocked ==
    (lock_started_at # None) <=> ~unlocked

\* The session has been locked for a while, the engine was snoozed and fed
\* before, and lock_started_at is the time of the change, not of a later
\* message.
C35_Witness ==
    /\ ~unlocked
    /\ lock_started_at # None /\ lock_started_at[1] < now
    /\ snoozed_until # None
    /\ measurements # <<>>
    /\ Len(args.emitted) = 1

\* C38: the unlock shift never re-activates an expired deadline: a snooze
\* that had expired, or a cadence timer that was due, when the lock began is
\* expired or due at the time of onUnlocked, whatever the lock's duration.
C38_ShiftKeepsExpired ==
    [][(~unlocked /\ unlocked') =>
          /\ lock_started_at # None
          /\ (snoozed_until # None /\ snoozed_until[1] <= lock_started_at[1])
                 => ~is_snoozed(Engine', now')
          /\ (next_ready_seated # None
                  /\ next_ready_seated[1] <= lock_started_at[1])
                 => (next_ready_seated' # None
                        /\ cadence_due(next_ready_seated', now'))
          /\ (next_ready_standing # None
                  /\ next_ready_standing[1] <= lock_started_at[1])
                 => (next_ready_standing' # None
                        /\ cadence_due(next_ready_standing', now'))]_vars

\* A lock that began when the seated cadence timer was due has ended a
\* minute or more later: the timer was moved and is due now.
C38_Witness ==
    /\ unlocked
    /\ args.before # None
    /\ args.before[1].lock_started_at # None
    /\ args.before[1].next_ready_seated # None
    /\ args.before[1].next_ready_seated[1] <= args.before[1].lock_started_at[1]
    /\ next_ready_seated # None
    /\ next_ready_seated[1] > args.before[1].next_ready_seated[1]
    /\ next_ready_seated[1] <= now

\* C39: each on_new_measurement call fires at most one notification, and its
\* kind matches the sample's posture: "Stand up" only for a sample with
\* height < stand_threshold_mm, "Posture check" only for a sample with
\* height >= stand_threshold_mm; a height exactly at the threshold is
\* standing.
C39_OneNotificationOfThePosture ==
    fed # None =>
        /\ Len(calls) <= 1
        /\ (\E i \in 1..Len(calls) : calls[i] = "Stand up")
               => fed[1] < cfg.stand_threshold_mm
        /\ (\E i \in 1..Len(calls) : calls[i] = "Posture check")
               => fed[1] >= cfg.stand_threshold_mm
        /\ \A i \in 1..Len(calls) : calls[i] \in {"Stand up", "Posture check"}

\* A sample exactly at the threshold got the posture check.
C39_Witness ==
    /\ fed = Some(cfg.stand_threshold_mm)
    /\ calls = <<"Posture check">>

\* C40: on a poll tick that occurs while the watcher reports locked or while
\* polling is paused no measurement is fetched or persisted and the engine is
\* not fed; toggling pause or locking changes no engine field other than
\* lock_started_at.
C40_NoPollWhileLockedOrPaused ==
    /\ [][((paused \/ ~unlocked) /\ SessionPoll) =>
              /\ ret' = Some("skipped")
              /\ measurements' = measurements
              /\ fed' = None]_vars
    /\ [][(paused \/ ~unlocked) => measurements' = measurements]_vars
    /\ [][(paused' # paused \/ (unlocked /\ ~unlocked')) =>
              UNCHANGED <<snoozed_until, next_ready_at, next_ready_seated,
                          next_ready_standing>>]_vars
    /\ [][paused' # paused => UNCHANGED lock_started_at]_vars

\* A poll tick was skipped while polling was paused and the session locked,
\* with a snooze and a cadence timer running.
C40_Witness ==
    /\ ret = Some("skipped")
    /\ paused /\ ~unlocked
    /\ snoozed_until # None
    /\ next_ready_seated # None
    /\ measurements # <<>>

=============================================================================
